---- MODULE Spec2Model ----
(***************************************************************************)
(* Stone price predictor: the priority scorer (utils/scoring.py), the      *)
(* statistical estimator (utils/ui_helpers.py) and the processing pass of  *)
(* the modular Streamlit app (components/processing_stage.py, main.py).    *)
(*                                                                         *)
(* Text is a sequence of characters, a character being its Unicode code    *)
(* point: 'Đá' is <<272, 225>>.  Lengths (H, W, L, query height, width and *)
(* length) are integers in thousandths of a centimetre, so 8000 is 8.0 cm  *)
(* and the 0.01 cm tolerance is 10; they stand for the Python floats       *)
(* nearest to them.  Prices are integers.                                  *)
(***************************************************************************)
EXTENDS Integers, Sequences, FiniteSets, TLC

VARIABLES
    df,          \* the table handed to calculate_priority_score (sequence of rows)
    query,       \* stone_type, processing_type, height, width, length of the call
    dfCols,      \* annotation columns the caller's table holds after the call
    scoreCol,    \* df['priority_score'] as assigned at scoring.py:137, in df order
    ret,         \* outcome of the call: status and the returned (sorted) table
    stage,       \* st.session_state.stage of the modular app
    sess,        \* the other keys of st.session_state
    data,        \* the table load_data() returns on the current rerun
    syncs,       \* how many times the data file changed since the analysis started
    pass,        \* outcome of the last run of render_processing_stage
    subset,      \* the table handed to calculate_prediction_results
    stats,       \* what calculate_prediction_results returned for it
    bare,        \* the table under test is pd.DataFrame(): no rows and no columns
    pieces,      \* the pieces of the name handed to the name functions
    norm,        \* what normalize_stone_name and get_stone_base_type returned
    price,       \* a raw regression output and what apply_price_transformation made of it
    bazan,       \* app6.py: the input product, the table and the scorer's result
    app7         \* app7.py: the loaded table and st.session_state of the single-file app

vars == <<df, query, dfCols, scoreCol, ret, stage, sess, data, syncs, pass, subset, stats,
          bare, pieces, norm, price, bazan, app7>>

scoreVars == <<df, query, dfCols, scoreCol, ret, bare>>
sessionVars == <<stage, sess, data, syncs, pass>>
statsVars == <<subset, stats>>
nameVars == <<pieces, norm>>
extraVars == <<price, bazan, app7>>

-----------------------------------------------------------------------------
(* Values *)

\* NaN / None of a numeric cell (pd.to_numeric(errors='coerce'))
Null == 0 - 1
\* Python None of an optional query dimension
None == 0 - 2
\* float('inf') in a price cell (pd.to_numeric parses the text "inf"): the
\* largest integer, which no sum of prices is taken with
Inf == 2147483647

\* a missing (NaN) text cell: no text holds the character -1
NaNText == <<0 - 1>>

Range(s) == {s[i] : i \in DOMAIN s}

Abs(x) == IF x < 0 THEN 0 - x ELSE x

Max2(a, b) == IF a >= b THEN a ELSE b
Min2(a, b) == IF a <= b THEN a ELSE b

-----------------------------------------------------------------------------
(* Python floats: abs(float(v) - x) compared with the limit of a tier *)

\* A length of a thousandths is the double nearest to a / 1000, and the
\* difference of two doubles is rounded to a double again, so a difference that
\* is the limit of a tier in decimal falls on either side of the limit:
\* 8.01 - 8.0 is 0.00999999999999979 and 2.2 - 1.2 is 1.0000000000000002.  The
\* side is computed with integers, for lengths from 0 up to 8192 cm.

\* the binade of a / 1000 counted from 2^-10: 2^(k-10) <= a / 1000 < 2^(k-9)
RECURSIVE FloatBinadeFrom(_, _)
FloatBinadeFrom(a, k) ==
    IF a * 128 < 125 * 2^(k + 1) THEN k ELSE FloatBinadeFrom(a, k + 1)

FloatBinade(a) == FloatBinadeFrom(a, 0)

\* 2^n modulo 125, for n up to 60
Pow2Mod125(n) ==
    IF n <= 30 THEN 2^n % 125 ELSE ((2^30 % 125) * (2^(n - 30) % 125)) % 125

\* a / 1000 is a * 2^(59-k) / 125 units of the last place of its double: the
\* remainder of that division
FloatRemainder(a) == ((a % 125) * Pow2Mod125(59 - FloatBinade(a))) % 125

\* the double of a / 1000 minus a / 1000, in units of 2^-62 / 125; a multiple
\* of 1/8 is a double
FloatError(a) ==
    IF a % 125 = 0 THEN 0
    ELSE LET r == FloatRemainder(a)
         IN  (IF r <= 62 THEN 0 - r ELSE 125 - r) * 2^FloatBinade(a)

\* the last bit of the mantissa of the double of a / 1000 is set
FloatOddMantissa(a) ==
    LET r == FloatRemainder(a)
    IN  IF r <= 62 THEN r % 2 = 1 ELSE r % 2 = 0

\* t / 1000 is a power of two: the doubles below it are half as far apart
FloatIsPowerOfTwo(t) == t * 128 = 125 * 2^FloatBinade(t)

\* the sign of abs(float(a) - float(b)) - float(t): -1, 0 or 1.  The exact
\* difference of the two doubles is x units off the double of t / 1000 and is
\* rounded to the nearest double, to the even one of two equally near.
FloatDiffCmp(a, b, t) ==
    IF Abs(a - b) < t THEN 0 - 1
    ELSE IF Abs(a - b) > t THEN 1
    ELSE LET x == FloatError(Max2(a, b)) - FloatError(Min2(a, b)) - FloatError(t)
             above == 125 * 2^FloatBinade(t)
             below == IF FloatIsPowerOfTwo(t) THEN above \div 2 ELSE above
         IN  IF x > 0 /\ (2 * x > above \/ (2 * x = above /\ FloatOddMantissa(t)))
             THEN 1
             ELSE IF x < 0 /\ (2 * (0 - x) > below
                               \/ (2 * (0 - x) = below /\ FloatOddMantissa(t)))
             THEN 0 - 1
             ELSE 0

\* abs(float(v) - x) < t and abs(float(v) - x) <= t
DiffBelow(v, x, t) == FloatDiffCmp(v, x, t) < 0
DiffWithin(v, x, t) == FloatDiffCmp(v, x, t) <= 0

-----------------------------------------------------------------------------
(* Text helpers: str.upper, str.isalpha, str.strip, re.sub(r'\s+', ' ', .),  *)
(* str.split                                                                *)

\* The tables are those of the Unicode character database of Python 3.11
\* (Unicode 14.0) and cover every code point, U+0000..U+10FFFF.

\* str.isspace: what str.strip, str.split and the \s of re take for whitespace
WhiteSpace ==
    (9..13) \cup (28..32) \cup {133, 160, 5760} \cup (8192..8202)
        \cup {8232, 8233, 8239, 8287, 12288}

IsSpace(c) == c \in WhiteSpace

\* the characters whose upper case is not a fixed number of places before
\* them, each with its upper case: 223 is the sharp s, whose upper case is 'SS'
UpperPairs ==
    {<<181, <<924>>>>, <<223, <<83, 83>>>>, <<255, <<376>>>>, <<305, <<73>>>>,
     <<307, <<306>>>>, <<309, <<308>>>>, <<311, <<310>>>>,
     <<329, <<700, 78>>>>, <<378, <<377>>>>, <<380, <<379>>>>,
     <<382, <<381>>>>, <<383, <<83>>>>, <<384, <<579>>>>, <<387, <<386>>>>,
     <<389, <<388>>>>, <<392, <<391>>>>, <<396, <<395>>>>, <<402, <<401>>>>,
     <<405, <<502>>>>, <<409, <<408>>>>, <<410, <<573>>>>, <<414, <<544>>>>,
     <<417, <<416>>>>, <<419, <<418>>>>, <<421, <<420>>>>, <<424, <<423>>>>,
     <<429, <<428>>>>, <<432, <<431>>>>, <<436, <<435>>>>, <<438, <<437>>>>,
     <<441, <<440>>>>, <<445, <<444>>>>, <<447, <<503>>>>, <<453, <<452>>>>,
     <<454, <<452>>>>, <<456, <<455>>>>, <<457, <<455>>>>, <<459, <<458>>>>,
     <<460, <<458>>>>, <<477, <<398>>>>, <<496, <<74, 780>>>>,
     <<498, <<497>>>>, <<499, <<497>>>>, <<501, <<500>>>>, <<572, <<571>>>>,
     <<575, <<11390>>>>, <<576, <<11391>>>>, <<578, <<577>>>>,
     <<592, <<11375>>>>, <<593, <<11373>>>>, <<594, <<11376>>>>,
     <<595, <<385>>>>, <<596, <<390>>>>, <<598, <<393>>>>, <<599, <<394>>>>,
     <<601, <<399>>>>, <<603, <<400>>>>, <<604, <<42923>>>>, <<608, <<403>>>>,
     <<609, <<42924>>>>, <<611, <<404>>>>, <<613, <<42893>>>>,
     <<614, <<42922>>>>, <<616, <<407>>>>, <<617, <<406>>>>,
     <<618, <<42926>>>>, <<619, <<11362>>>>, <<620, <<42925>>>>,
     <<623, <<412>>>>, <<625, <<11374>>>>, <<626, <<413>>>>, <<629, <<415>>>>,
     <<637, <<11364>>>>, <<640, <<422>>>>, <<642, <<42949>>>>,
     <<643, <<425>>>>, <<647, <<42929>>>>, <<648, <<430>>>>, <<649, <<580>>>>,
     <<650, <<433>>>>, <<651, <<434>>>>, <<652, <<581>>>>, <<658, <<439>>>>,
     <<669, <<42930>>>>, <<670, <<42928>>>>, <<837, <<921>>>>,
     <<881, <<880>>>>, <<883, <<882>>>>, <<887, <<886>>>>, <<891, <<1021>>>>,
     <<892, <<1022>>>>, <<893, <<1023>>>>, <<912, <<921, 776, 769>>>>,
     <<940, <<902>>>>, <<941, <<904>>>>, <<942, <<905>>>>, <<943, <<906>>>>,
     <<944, <<933, 776, 769>>>>, <<962, <<931>>>>, <<972, <<908>>>>,
     <<973, <<910>>>>, <<974, <<911>>>>, <<976, <<914>>>>, <<977, <<920>>>>,
     <<981, <<934>>>>, <<982, <<928>>>>, <<983, <<975>>>>, <<1008, <<922>>>>,
     <<1009, <<929>>>>, <<1010, <<1017>>>>, <<1011, <<895>>>>,
     <<1013, <<917>>>>, <<1016, <<1015>>>>, <<1019, <<1018>>>>,
     <<1231, <<1216>>>>, <<1415, <<1333, 1362>>>>, <<4349, <<7357>>>>,
     <<4350, <<7358>>>>, <<4351, <<7359>>>>, <<7296, <<1042>>>>,
     <<7297, <<1044>>>>, <<7298, <<1054>>>>, <<7299, <<1057>>>>,
     <<7300, <<1058>>>>, <<7301, <<1058>>>>, <<7302, <<1066>>>>,
     <<7303, <<1122>>>>, <<7304, <<42570>>>>, <<7545, <<42877>>>>,
     <<7549, <<11363>>>>, <<7566, <<42950>>>>, <<7830, <<72, 817>>>>,
     <<7831, <<84, 776>>>>, <<7832, <<87, 778>>>>, <<7833, <<89, 778>>>>,
     <<7834, <<65, 702>>>>, <<7835, <<7776>>>>, <<8016, <<933, 787>>>>,
     <<8017, <<8025>>>>, <<8018, <<933, 787, 768>>>>, <<8019, <<8027>>>>,
     <<8020, <<933, 787, 769>>>>, <<8021, <<8029>>>>,
     <<8022, <<933, 787, 834>>>>, <<8023, <<8031>>>>, <<8048, <<8122>>>>,
     <<8049, <<8123>>>>, <<8054, <<8154>>>>, <<8055, <<8155>>>>,
     <<8056, <<8184>>>>, <<8057, <<8185>>>>, <<8058, <<8170>>>>,
     <<8059, <<8171>>>>, <<8060, <<8186>>>>, <<8061, <<8187>>>>,
     <<8064, <<7944, 921>>>>, <<8065, <<7945, 921>>>>,
     <<8066, <<7946, 921>>>>, <<8067, <<7947, 921>>>>,
     <<8068, <<7948, 921>>>>, <<8069, <<7949, 921>>>>,
     <<8070, <<7950, 921>>>>, <<8071, <<7951, 921>>>>,
     <<8072, <<7944, 921>>>>, <<8073, <<7945, 921>>>>,
     <<8074, <<7946, 921>>>>, <<8075, <<7947, 921>>>>,
     <<8076, <<7948, 921>>>>, <<8077, <<7949, 921>>>>,
     <<8078, <<7950, 921>>>>, <<8079, <<7951, 921>>>>,
     <<8080, <<7976, 921>>>>, <<8081, <<7977, 921>>>>,
     <<8082, <<7978, 921>>>>, <<8083, <<7979, 921>>>>,
     <<8084, <<7980, 921>>>>, <<8085, <<7981, 921>>>>,
     <<8086, <<7982, 921>>>>, <<8087, <<7983, 921>>>>,
     <<8088, <<7976, 921>>>>, <<8089, <<7977, 921>>>>,
     <<8090, <<7978, 921>>>>, <<8091, <<7979, 921>>>>,
     <<8092, <<7980, 921>>>>, <<8093, <<7981, 921>>>>,
     <<8094, <<7982, 921>>>>, <<8095, <<7983, 921>>>>,
     <<8096, <<8040, 921>>>>, <<8097, <<8041, 921>>>>,
     <<8098, <<8042, 921>>>>, <<8099, <<8043, 921>>>>,
     <<8100, <<8044, 921>>>>, <<8101, <<8045, 921>>>>,
     <<8102, <<8046, 921>>>>, <<8103, <<8047, 921>>>>,
     <<8104, <<8040, 921>>>>, <<8105, <<8041, 921>>>>,
     <<8106, <<8042, 921>>>>, <<8107, <<8043, 921>>>>,
     <<8108, <<8044, 921>>>>, <<8109, <<8045, 921>>>>,
     <<8110, <<8046, 921>>>>, <<8111, <<8047, 921>>>>, <<8112, <<8120>>>>,
     <<8113, <<8121>>>>, <<8114, <<8122, 921>>>>, <<8115, <<913, 921>>>>,
     <<8116, <<902, 921>>>>, <<8118, <<913, 834>>>>,
     <<8119, <<913, 834, 921>>>>, <<8124, <<913, 921>>>>, <<8126, <<921>>>>,
     <<8130, <<8138, 921>>>>, <<8131, <<919, 921>>>>, <<8132, <<905, 921>>>>,
     <<8134, <<919, 834>>>>, <<8135, <<919, 834, 921>>>>,
     <<8140, <<919, 921>>>>, <<8144, <<8152>>>>, <<8145, <<8153>>>>,
     <<8146, <<921, 776, 768>>>>, <<8147, <<921, 776, 769>>>>,
     <<8150, <<921, 834>>>>, <<8151, <<921, 776, 834>>>>, <<8160, <<8168>>>>,
     <<8161, <<8169>>>>, <<8162, <<933, 776, 768>>>>,
     <<8163, <<933, 776, 769>>>>, <<8164, <<929, 787>>>>, <<8165, <<8172>>>>,
     <<8166, <<933, 834>>>>, <<8167, <<933, 776, 834>>>>,
     <<8178, <<8186, 921>>>>, <<8179, <<937, 921>>>>, <<8180, <<911, 921>>>>,
     <<8182, <<937, 834>>>>, <<8183, <<937, 834, 921>>>>,
     <<8188, <<937, 921>>>>, <<8526, <<8498>>>>, <<8580, <<8579>>>>,
     <<11361, <<11360>>>>, <<11365, <<570>>>>, <<11366, <<574>>>>,
     <<11368, <<11367>>>>, <<11370, <<11369>>>>, <<11372, <<11371>>>>,
     <<11379, <<11378>>>>, <<11382, <<11381>>>>, <<11500, <<11499>>>>,
     <<11502, <<11501>>>>, <<11507, <<11506>>>>, <<11559, <<4295>>>>,
     <<11565, <<4301>>>>, <<42874, <<42873>>>>, <<42876, <<42875>>>>,
     <<42892, <<42891>>>>, <<42897, <<42896>>>>, <<42899, <<42898>>>>,
     <<42900, <<42948>>>>, <<42952, <<42951>>>>, <<42954, <<42953>>>>,
     <<42961, <<42960>>>>, <<42967, <<42966>>>>, <<42969, <<42968>>>>,
     <<42998, <<42997>>>>, <<43859, <<42931>>>>, <<64256, <<70, 70>>>>,
     <<64257, <<70, 73>>>>, <<64258, <<70, 76>>>>, <<64259, <<70, 70, 73>>>>,
     <<64260, <<70, 70, 76>>>>, <<64261, <<83, 84>>>>, <<64262, <<83, 84>>>>,
     <<64275, <<1348, 1350>>>>, <<64276, <<1348, 1333>>>>,
     <<64277, <<1348, 1339>>>>, <<64278, <<1358, 1350>>>>,
     <<64279, <<1348, 1341>>>>, <<67003, <<66964>>>>, <<67004, <<66965>>>>}

UpperIrregular ==
    [c \in {p[1] : p \in UpperPairs} |-> (CHOOSE p \in UpperPairs : p[1] = c)[2]]

\* the runs <<first, last>> of lower-case letters that alternate with their
\* upper case, each standing right after it
LowerByOne ==
    {<<257, 303>>, <<314, 328>>, <<331, 375>>, <<462, 476>>, <<479, 495>>,
     <<505, 543>>, <<547, 563>>, <<583, 591>>, <<985, 1007>>, <<1121, 1153>>,
     <<1163, 1215>>, <<1218, 1230>>, <<1233, 1327>>, <<7681, 7829>>,
     <<7841, 7935>>, <<11393, 11491>>, <<42561, 42605>>, <<42625, 42651>>,
     <<42787, 42799>>, <<42803, 42863>>, <<42879, 42887>>, <<42903, 42921>>,
     <<42933, 42947>>}

\* the runs <<first, last, d>> of lower-case letters that stand d places after
\* their upper case: 'a'..'z' stand 32 places after 'A'..'Z'
LowerShifted ==
    {<<97, 122, 32>>, <<224, 246, 32>>, <<248, 254, 32>>, <<945, 961, 32>>,
     <<963, 971, 32>>, <<1072, 1103, 32>>, <<1104, 1119, 80>>,
     <<1377, 1414, 48>>, <<4304, 4346, -3008>>, <<5112, 5117, 8>>,
     <<7936, 7943, -8>>, <<7952, 7957, -8>>, <<7968, 7975, -8>>,
     <<7984, 7991, -8>>, <<8000, 8005, -8>>, <<8032, 8039, -8>>,
     <<8050, 8053, -86>>, <<8560, 8575, 16>>, <<9424, 9449, 26>>,
     <<11312, 11359, 48>>, <<11520, 11557, 7264>>, <<43888, 43967, 38864>>,
     <<65345, 65370, 32>>, <<66600, 66639, 40>>, <<66776, 66811, 40>>,
     <<66967, 66977, 39>>, <<66979, 66993, 39>>, <<66995, 67001, 39>>,
     <<68800, 68850, 64>>, <<71872, 71903, 32>>, <<93792, 93823, 32>>,
     <<125218, 125251, 34>>}

\* str.isalpha: the runs <<first, last>> of letters
Letters ==
    {<<65, 90>>, <<97, 122>>, <<170, 170>>, <<181, 181>>, <<186, 186>>,
     <<192, 214>>, <<216, 246>>, <<248, 705>>, <<710, 721>>, <<736, 740>>,
     <<748, 748>>, <<750, 750>>, <<880, 884>>, <<886, 887>>, <<890, 893>>,
     <<895, 895>>, <<902, 902>>, <<904, 906>>, <<908, 908>>, <<910, 929>>,
     <<931, 1013>>, <<1015, 1153>>, <<1162, 1327>>, <<1329, 1366>>,
     <<1369, 1369>>, <<1376, 1416>>, <<1488, 1514>>, <<1519, 1522>>,
     <<1568, 1610>>, <<1646, 1647>>, <<1649, 1747>>, <<1749, 1749>>,
     <<1765, 1766>>, <<1774, 1775>>, <<1786, 1788>>, <<1791, 1791>>,
     <<1808, 1808>>, <<1810, 1839>>, <<1869, 1957>>, <<1969, 1969>>,
     <<1994, 2026>>, <<2036, 2037>>, <<2042, 2042>>, <<2048, 2069>>,
     <<2074, 2074>>, <<2084, 2084>>, <<2088, 2088>>, <<2112, 2136>>,
     <<2144, 2154>>, <<2160, 2183>>, <<2185, 2190>>, <<2208, 2249>>,
     <<2308, 2361>>, <<2365, 2365>>, <<2384, 2384>>, <<2392, 2401>>,
     <<2417, 2432>>, <<2437, 2444>>, <<2447, 2448>>, <<2451, 2472>>,
     <<2474, 2480>>, <<2482, 2482>>, <<2486, 2489>>, <<2493, 2493>>,
     <<2510, 2510>>, <<2524, 2525>>, <<2527, 2529>>, <<2544, 2545>>,
     <<2556, 2556>>, <<2565, 2570>>, <<2575, 2576>>, <<2579, 2600>>,
     <<2602, 2608>>, <<2610, 2611>>, <<2613, 2614>>, <<2616, 2617>>,
     <<2649, 2652>>, <<2654, 2654>>, <<2674, 2676>>, <<2693, 2701>>,
     <<2703, 2705>>, <<2707, 2728>>, <<2730, 2736>>, <<2738, 2739>>,
     <<2741, 2745>>, <<2749, 2749>>, <<2768, 2768>>, <<2784, 2785>>,
     <<2809, 2809>>, <<2821, 2828>>, <<2831, 2832>>, <<2835, 2856>>,
     <<2858, 2864>>, <<2866, 2867>>, <<2869, 2873>>, <<2877, 2877>>,
     <<2908, 2909>>, <<2911, 2913>>, <<2929, 2929>>, <<2947, 2947>>,
     <<2949, 2954>>, <<2958, 2960>>, <<2962, 2965>>, <<2969, 2970>>,
     <<2972, 2972>>, <<2974, 2975>>, <<2979, 2980>>, <<2984, 2986>>,
     <<2990, 3001>>, <<3024, 3024>>, <<3077, 3084>>, <<3086, 3088>>,
     <<3090, 3112>>, <<3114, 3129>>, <<3133, 3133>>, <<3160, 3162>>,
     <<3165, 3165>>, <<3168, 3169>>, <<3200, 3200>>, <<3205, 3212>>,
     <<3214, 3216>>, <<3218, 3240>>, <<3242, 3251>>, <<3253, 3257>>,
     <<3261, 3261>>, <<3293, 3294>>, <<3296, 3297>>, <<3313, 3314>>,
     <<3332, 3340>>, <<3342, 3344>>, <<3346, 3386>>, <<3389, 3389>>,
     <<3406, 3406>>, <<3412, 3414>>, <<3423, 3425>>, <<3450, 3455>>,
     <<3461, 3478>>, <<3482, 3505>>, <<3507, 3515>>, <<3517, 3517>>,
     <<3520, 3526>>, <<3585, 3632>>, <<3634, 3635>>, <<3648, 3654>>,
     <<3713, 3714>>, <<3716, 3716>>, <<3718, 3722>>, <<3724, 3747>>,
     <<3749, 3749>>, <<3751, 3760>>, <<3762, 3763>>, <<3773, 3773>>,
     <<3776, 3780>>, <<3782, 3782>>, <<3804, 3807>>, <<3840, 3840>>,
     <<3904, 3911>>, <<3913, 3948>>, <<3976, 3980>>, <<4096, 4138>>,
     <<4159, 4159>>, <<4176, 4181>>, <<4186, 4189>>, <<4193, 4193>>,
     <<4197, 4198>>, <<4206, 4208>>, <<4213, 4225>>, <<4238, 4238>>,
     <<4256, 4293>>, <<4295, 4295>>, <<4301, 4301>>, <<4304, 4346>>,
     <<4348, 4680>>, <<4682, 4685>>, <<4688, 4694>>, <<4696, 4696>>,
     <<4698, 4701>>, <<4704, 4744>>, <<4746, 4749>>, <<4752, 4784>>,
     <<4786, 4789>>, <<4792, 4798>>, <<4800, 4800>>, <<4802, 4805>>,
     <<4808, 4822>>, <<4824, 4880>>, <<4882, 4885>>, <<4888, 4954>>,
     <<4992, 5007>>, <<5024, 5109>>, <<5112, 5117>>, <<5121, 5740>>,
     <<5743, 5759>>, <<5761, 5786>>, <<5792, 5866>>, <<5873, 5880>>,
     <<5888, 5905>>, <<5919, 5937>>, <<5952, 5969>>, <<5984, 5996>>,
     <<5998, 6000>>, <<6016, 6067>>, <<6103, 6103>>, <<6108, 6108>>,
     <<6176, 6264>>, <<6272, 6276>>, <<6279, 6312>>, <<6314, 6314>>,
     <<6320, 6389>>, <<6400, 6430>>, <<6480, 6509>>, <<6512, 6516>>,
     <<6528, 6571>>, <<6576, 6601>>, <<6656, 6678>>, <<6688, 6740>>,
     <<6823, 6823>>, <<6917, 6963>>, <<6981, 6988>>, <<7043, 7072>>,
     <<7086, 7087>>, <<7098, 7141>>, <<7168, 7203>>, <<7245, 7247>>,
     <<7258, 7293>>, <<7296, 7304>>, <<7312, 7354>>, <<7357, 7359>>,
     <<7401, 7404>>, <<7406, 7411>>, <<7413, 7414>>, <<7418, 7418>>,
     <<7424, 7615>>, <<7680, 7957>>, <<7960, 7965>>, <<7968, 8005>>,
     <<8008, 8013>>, <<8016, 8023>>, <<8025, 8025>>, <<8027, 8027>>,
     <<8029, 8029>>, <<8031, 8061>>, <<8064, 8116>>, <<8118, 8124>>,
     <<8126, 8126>>, <<8130, 8132>>, <<8134, 8140>>, <<8144, 8147>>,
     <<8150, 8155>>, <<8160, 8172>>, <<8178, 8180>>, <<8182, 8188>>,
     <<8305, 8305>>, <<8319, 8319>>, <<8336, 8348>>, <<8450, 8450>>,
     <<8455, 8455>>, <<8458, 8467>>, <<8469, 8469>>, <<8473, 8477>>,
     <<8484, 8484>>, <<8486, 8486>>, <<8488, 8488>>, <<8490, 8493>>,
     <<8495, 8505>>, <<8508, 8511>>, <<8517, 8521>>, <<8526, 8526>>,
     <<8579, 8580>>, <<11264, 11492>>, <<11499, 11502>>, <<11506, 11507>>,
     <<11520, 11557>>, <<11559, 11559>>, <<11565, 11565>>, <<11568, 11623>>,
     <<11631, 11631>>, <<11648, 11670>>, <<11680, 11686>>, <<11688, 11694>>,
     <<11696, 11702>>, <<11704, 11710>>, <<11712, 11718>>, <<11720, 11726>>,
     <<11728, 11734>>, <<11736, 11742>>, <<11823, 11823>>, <<12293, 12294>>,
     <<12337, 12341>>, <<12347, 12348>>, <<12353, 12438>>, <<12445, 12447>>,
     <<12449, 12538>>, <<12540, 12543>>, <<12549, 12591>>, <<12593, 12686>>,
     <<12704, 12735>>, <<12784, 12799>>, <<13312, 19903>>, <<19968, 42124>>,
     <<42192, 42237>>, <<42240, 42508>>, <<42512, 42527>>, <<42538, 42539>>,
     <<42560, 42606>>, <<42623, 42653>>, <<42656, 42725>>, <<42775, 42783>>,
     <<42786, 42888>>, <<42891, 42954>>, <<42960, 42961>>, <<42963, 42963>>,
     <<42965, 42969>>, <<42994, 43009>>, <<43011, 43013>>, <<43015, 43018>>,
     <<43020, 43042>>, <<43072, 43123>>, <<43138, 43187>>, <<43250, 43255>>,
     <<43259, 43259>>, <<43261, 43262>>, <<43274, 43301>>, <<43312, 43334>>,
     <<43360, 43388>>, <<43396, 43442>>, <<43471, 43471>>, <<43488, 43492>>,
     <<43494, 43503>>, <<43514, 43518>>, <<43520, 43560>>, <<43584, 43586>>,
     <<43588, 43595>>, <<43616, 43638>>, <<43642, 43642>>, <<43646, 43695>>,
     <<43697, 43697>>, <<43701, 43702>>, <<43705, 43709>>, <<43712, 43712>>,
     <<43714, 43714>>, <<43739, 43741>>, <<43744, 43754>>, <<43762, 43764>>,
     <<43777, 43782>>, <<43785, 43790>>, <<43793, 43798>>, <<43808, 43814>>,
     <<43816, 43822>>, <<43824, 43866>>, <<43868, 43881>>, <<43888, 44002>>,
     <<44032, 55203>>, <<55216, 55238>>, <<55243, 55291>>, <<63744, 64109>>,
     <<64112, 64217>>, <<64256, 64262>>, <<64275, 64279>>, <<64285, 64285>>,
     <<64287, 64296>>, <<64298, 64310>>, <<64312, 64316>>, <<64318, 64318>>,
     <<64320, 64321>>, <<64323, 64324>>, <<64326, 64433>>, <<64467, 64829>>,
     <<64848, 64911>>, <<64914, 64967>>, <<65008, 65019>>, <<65136, 65140>>,
     <<65142, 65276>>, <<65313, 65338>>, <<65345, 65370>>, <<65382, 65470>>,
     <<65474, 65479>>, <<65482, 65487>>, <<65490, 65495>>, <<65498, 65500>>,
     <<65536, 65547>>, <<65549, 65574>>, <<65576, 65594>>, <<65596, 65597>>,
     <<65599, 65613>>, <<65616, 65629>>, <<65664, 65786>>, <<66176, 66204>>,
     <<66208, 66256>>, <<66304, 66335>>, <<66349, 66368>>, <<66370, 66377>>,
     <<66384, 66421>>, <<66432, 66461>>, <<66464, 66499>>, <<66504, 66511>>,
     <<66560, 66717>>, <<66736, 66771>>, <<66776, 66811>>, <<66816, 66855>>,
     <<66864, 66915>>, <<66928, 66938>>, <<66940, 66954>>, <<66956, 66962>>,
     <<66964, 66965>>, <<66967, 66977>>, <<66979, 66993>>, <<66995, 67001>>,
     <<67003, 67004>>, <<67072, 67382>>, <<67392, 67413>>, <<67424, 67431>>,
     <<67456, 67461>>, <<67463, 67504>>, <<67506, 67514>>, <<67584, 67589>>,
     <<67592, 67592>>, <<67594, 67637>>, <<67639, 67640>>, <<67644, 67644>>,
     <<67647, 67669>>, <<67680, 67702>>, <<67712, 67742>>, <<67808, 67826>>,
     <<67828, 67829>>, <<67840, 67861>>, <<67872, 67897>>, <<67968, 68023>>,
     <<68030, 68031>>, <<68096, 68096>>, <<68112, 68115>>, <<68117, 68119>>,
     <<68121, 68149>>, <<68192, 68220>>, <<68224, 68252>>, <<68288, 68295>>,
     <<68297, 68324>>, <<68352, 68405>>, <<68416, 68437>>, <<68448, 68466>>,
     <<68480, 68497>>, <<68608, 68680>>, <<68736, 68786>>, <<68800, 68850>>,
     <<68864, 68899>>, <<69248, 69289>>, <<69296, 69297>>, <<69376, 69404>>,
     <<69415, 69415>>, <<69424, 69445>>, <<69488, 69505>>, <<69552, 69572>>,
     <<69600, 69622>>, <<69635, 69687>>, <<69745, 69746>>, <<69749, 69749>>,
     <<69763, 69807>>, <<69840, 69864>>, <<69891, 69926>>, <<69956, 69956>>,
     <<69959, 69959>>, <<69968, 70002>>, <<70006, 70006>>, <<70019, 70066>>,
     <<70081, 70084>>, <<70106, 70106>>, <<70108, 70108>>, <<70144, 70161>>,
     <<70163, 70187>>, <<70272, 70278>>, <<70280, 70280>>, <<70282, 70285>>,
     <<70287, 70301>>, <<70303, 70312>>, <<70320, 70366>>, <<70405, 70412>>,
     <<70415, 70416>>, <<70419, 70440>>, <<70442, 70448>>, <<70450, 70451>>,
     <<70453, 70457>>, <<70461, 70461>>, <<70480, 70480>>, <<70493, 70497>>,
     <<70656, 70708>>, <<70727, 70730>>, <<70751, 70753>>, <<70784, 70831>>,
     <<70852, 70853>>, <<70855, 70855>>, <<71040, 71086>>, <<71128, 71131>>,
     <<71168, 71215>>, <<71236, 71236>>, <<71296, 71338>>, <<71352, 71352>>,
     <<71424, 71450>>, <<71488, 71494>>, <<71680, 71723>>, <<71840, 71903>>,
     <<71935, 71942>>, <<71945, 71945>>, <<71948, 71955>>, <<71957, 71958>>,
     <<71960, 71983>>, <<71999, 71999>>, <<72001, 72001>>, <<72096, 72103>>,
     <<72106, 72144>>, <<72161, 72161>>, <<72163, 72163>>, <<72192, 72192>>,
     <<72203, 72242>>, <<72250, 72250>>, <<72272, 72272>>, <<72284, 72329>>,
     <<72349, 72349>>, <<72368, 72440>>, <<72704, 72712>>, <<72714, 72750>>,
     <<72768, 72768>>, <<72818, 72847>>, <<72960, 72966>>, <<72968, 72969>>,
     <<72971, 73008>>, <<73030, 73030>>, <<73056, 73061>>, <<73063, 73064>>,
     <<73066, 73097>>, <<73112, 73112>>, <<73440, 73458>>, <<73648, 73648>>,
     <<73728, 74649>>, <<74880, 75075>>, <<77712, 77808>>, <<77824, 78894>>,
     <<82944, 83526>>, <<92160, 92728>>, <<92736, 92766>>, <<92784, 92862>>,
     <<92880, 92909>>, <<92928, 92975>>, <<92992, 92995>>, <<93027, 93047>>,
     <<93053, 93071>>, <<93760, 93823>>, <<93952, 94026>>, <<94032, 94032>>,
     <<94099, 94111>>, <<94176, 94177>>, <<94179, 94179>>, <<94208, 100343>>,
     <<100352, 101589>>, <<101632, 101640>>, <<110576, 110579>>,
     <<110581, 110587>>, <<110589, 110590>>, <<110592, 110882>>,
     <<110928, 110930>>, <<110948, 110951>>, <<110960, 111355>>,
     <<113664, 113770>>, <<113776, 113788>>, <<113792, 113800>>,
     <<113808, 113817>>, <<119808, 119892>>, <<119894, 119964>>,
     <<119966, 119967>>, <<119970, 119970>>, <<119973, 119974>>,
     <<119977, 119980>>, <<119982, 119993>>, <<119995, 119995>>,
     <<119997, 120003>>, <<120005, 120069>>, <<120071, 120074>>,
     <<120077, 120084>>, <<120086, 120092>>, <<120094, 120121>>,
     <<120123, 120126>>, <<120128, 120132>>, <<120134, 120134>>,
     <<120138, 120144>>, <<120146, 120485>>, <<120488, 120512>>,
     <<120514, 120538>>, <<120540, 120570>>, <<120572, 120596>>,
     <<120598, 120628>>, <<120630, 120654>>, <<120656, 120686>>,
     <<120688, 120712>>, <<120714, 120744>>, <<120746, 120770>>,
     <<120772, 120779>>, <<122624, 122654>>, <<123136, 123180>>,
     <<123191, 123197>>, <<123214, 123214>>, <<123536, 123565>>,
     <<123584, 123627>>, <<124896, 124902>>, <<124904, 124907>>,
     <<124909, 124910>>, <<124912, 124926>>, <<124928, 125124>>,
     <<125184, 125251>>, <<125259, 125259>>, <<126464, 126467>>,
     <<126469, 126495>>, <<126497, 126498>>, <<126500, 126500>>,
     <<126503, 126503>>, <<126505, 126514>>, <<126516, 126519>>,
     <<126521, 126521>>, <<126523, 126523>>, <<126530, 126530>>,
     <<126535, 126535>>, <<126537, 126537>>, <<126539, 126539>>,
     <<126541, 126543>>, <<126545, 126546>>, <<126548, 126548>>,
     <<126551, 126551>>, <<126553, 126553>>, <<126555, 126555>>,
     <<126557, 126557>>, <<126559, 126559>>, <<126561, 126562>>,
     <<126564, 126564>>, <<126567, 126570>>, <<126572, 126578>>,
     <<126580, 126583>>, <<126585, 126588>>, <<126590, 126590>>,
     <<126592, 126601>>, <<126603, 126619>>, <<126625, 126627>>,
     <<126629, 126633>>, <<126635, 126651>>, <<131072, 173791>>,
     <<173824, 177976>>, <<177984, 178205>>, <<178208, 183969>>,
     <<183984, 191456>>, <<194560, 195101>>, <<196608, 201546>>}

\* c.isalpha(); an ASCII character is decided without the table
IsAlpha(c) ==
    IF c < 128 THEN c \in (65..90) \cup (97..122)
    ELSE \E r \in Letters : r[1] <= c /\ c <= r[2]

\* c.upper(): one character, or more than one; an ASCII character is decided
\* without the tables
UpperChar(c) ==
    IF c < 128 THEN (IF c \in 97..122 THEN <<c - 32>> ELSE <<c>>)
    ELSE IF c \in DOMAIN UpperIrregular THEN UpperIrregular[c]
    ELSE IF \E r \in LowerByOne : r[1] <= c /\ c <= r[2] /\ (c - r[1]) % 2 = 0
         THEN <<c - 1>>
    ELSE IF \E r \in LowerShifted : r[1] <= c /\ c <= r[2]
         THEN <<c - (CHOOSE r \in LowerShifted : r[1] <= c /\ c <= r[2])[3]>>
    ELSE <<c>>

RECURSIVE Upper(_)
Upper(s) == IF s = <<>> THEN <<>> ELSE UpperChar(Head(s)) \o Upper(Tail(s))

RECURSIVE LStrip(_)
LStrip(s) == IF s # <<>> /\ IsSpace(Head(s)) THEN LStrip(Tail(s)) ELSE s

RECURSIVE RStrip(_)
RStrip(s) ==
    IF s # <<>> /\ IsSpace(s[Len(s)]) THEN RStrip(SubSeq(s, 1, Len(s) - 1)) ELSE s

Strip(s) == RStrip(LStrip(s))

\* re.sub(r'\s+', ' ', s): every maximal run of whitespace becomes one space
RECURSIVE CollapseSpaces(_)
CollapseSpaces(s) ==
    IF s = <<>> THEN <<>>
    ELSE IF IsSpace(Head(s))
         THEN <<32>> \o CollapseSpaces(LStrip(s))
         ELSE <<Head(s)>> \o CollapseSpaces(Tail(s))

StartsWith(s, p) == Len(s) >= Len(p) /\ SubSeq(s, 1, Len(p)) = p

\* s.split()[0] for a text with a non-blank character: its first token
RECURSIVE TakeToken(_)
TakeToken(s) ==
    IF s = <<>> \/ IsSpace(Head(s)) THEN <<>>
    ELSE <<Head(s)>> \o TakeToken(Tail(s))

FirstToken(s) == TakeToken(LStrip(s))

\* str(x) of a text cell: a NaN cell prints as 'nan'
Str(x) == IF x = NaNText THEN <<110, 97, 110>> ELSE x

-----------------------------------------------------------------------------
(* utils/scoring.py: name normalisation *)

\* re.sub(r'\s\s', ' ', s): only pairs of whitespace characters are replaced
RECURSIVE CollapsePairs(_)
CollapsePairs(s) ==
    IF s = <<>> THEN <<>>
    ELSE IF Len(s) >= 2 /\ IsSpace(s[1]) /\ IsSpace(s[2])
         THEN <<32>> \o CollapsePairs(Tail(Tail(s)))
         ELSE <<Head(s)>> \o CollapsePairs(Tail(s))

\* a normalisation that collapses whitespace pair by pair
normalize_collapsing_pairs(stone_name) ==
    IF stone_name = NaNText THEN <<>>
    ELSE CollapsePairs(Upper(Strip(stone_name)))

normalize_stone_name(stone_name) ==
    IF stone_name = NaNText THEN <<>>
    ELSE CollapseSpaces(Upper(Strip(stone_name)))

\* 'BAZAN'
BAZAN == <<66, 65, 90, 65, 78>>
\* 'BLUESTONE'
BLUESTONE == <<66, 76, 85, 69, 83, 84, 79, 78, 69>>
\* 'GRANITE'
GRANITE == <<71, 82, 65, 78, 73, 84, 69>>

base_types == <<BAZAN, BLUESTONE, GRANITE>>

\* a base type that is always the first token of the name
base_type_first_token(stone_name) ==
    LET normalized == normalize_stone_name(stone_name)
    IN  IF FirstToken(normalized) # <<>> THEN FirstToken(normalized) ELSE normalized

get_stone_base_type(stone_name) ==
    LET normalized == normalize_stone_name(stone_name)
        hits == {i \in DOMAIN base_types : StartsWith(normalized, base_types[i])}
    IN  IF hits # {}
        THEN base_types[CHOOSE i \in hits : \A j \in hits : i <= j]
        ELSE IF FirstToken(normalized) # <<>> THEN FirstToken(normalized)
             ELSE normalized

-----------------------------------------------------------------------------
(* utils/scoring.py: product codes *)

\* str(n) of a non-negative integer; the digit d is the character 48 + d
RECURSIVE Digits(_)
Digits(n) ==
    IF n < 10 THEN <<48 + n>>
    ELSE Digits(n \div 10) \o <<48 + (n % 10)>>

\* f"{index:03d}"
Pad3(n) ==
    IF n < 10 THEN <<48, 48>> \o Digits(n)
    ELSE IF n < 100 THEN <<48>> \o Digits(n)
    ELSE Digits(n)

\* int(x) of a float cell given in thousandths: truncation
IntOf(x) == x \div 1000

FirstChars(s, n) == SubSeq(s, 1, Min2(n, Len(s)))

\* int() of a NaN cell raises ValueError
CodeRaises(row) == row.H = Null \/ row.W = Null \/ row.L = Null

\* a product code without the row index
generate_product_code_no_index(row, index) ==
    LET stone_code == SelectSeq(Upper(FirstChars(Str(row.loai_da), 3)), IsAlpha)
        processing_code == SelectSeq(Upper(FirstChars(Str(row.gia_cong), 2)), IsAlpha)
        size_code == Digits(IntOf(row.H)) \o Digits(IntOf(row.W)) \o Digits(IntOf(row.L))
    IN  stone_code \o <<45>> \o processing_code \o <<45>> \o size_code

generate_product_code(row, index) ==
    LET stone_code == SelectSeq(Upper(FirstChars(Str(row.loai_da), 3)), IsAlpha)
        processing_code == SelectSeq(Upper(FirstChars(Str(row.gia_cong), 2)), IsAlpha)
        size_code == Digits(IntOf(row.H)) \o Digits(IntOf(row.W)) \o Digits(IntOf(row.L))
    IN  stone_code \o <<45>> \o processing_code \o <<45>> \o size_code
            \o <<45>> \o Pad3(index)

-----------------------------------------------------------------------------
(* utils/scoring.py: score_row, one factor at a time *)

\* a stone factor that compares the raw names
StoneScoreRawNames(r, stone_type) ==
    IF r.loai_da = stone_type THEN 30
    ELSE IF get_stone_base_type(r.loai_da) = get_stone_base_type(stone_type) THEN 25
    ELSE 20

\* da_map: exact normalised name 30, same base type 25, any stone 20
StoneScore(r, stone_type) ==
    LET input_stone == normalize_stone_name(stone_type)
        input_base_type == get_stone_base_type(input_stone)
    IN  IF normalize_stone_name(r.loai_da) = input_stone THEN 30
        ELSE IF get_stone_base_type(r.loai_da) = input_base_type
                /\ normalize_stone_name(r.loai_da) # input_stone THEN 25
        ELSE 20

\* a processing factor that compares the raw names
ProcessingScoreRawNames(r, processing_type) ==
    IF r.gia_cong = processing_type THEN 20 ELSE 15

\* gc_map: exact normalised method 20, any method 15
ProcessingScore(r, processing_type) ==
    LET input_processing == normalize_stone_name(processing_type)
    IN  IF normalize_stone_name(r.gia_cong) = input_processing THEN 20 ELSE 15

\* cao_map: < 0.01 -> 15, <= 1.0 -> 12, <= 2.0 -> 9; a NaN height scores nothing
HeightScore(r, height) ==
    IF r.H = Null THEN 0
    ELSE IF DiffBelow(r.H, height, 10) THEN 15
    ELSE IF DiffWithin(r.H, height, 1000) THEN 12
    ELSE IF DiffWithin(r.H, height, 2000) THEN 9
    ELSE 0

\* a width factor whose top tier is worth 12 points
WidthScoreTwelve(r, width) ==
    IF width = None \/ r.W = Null THEN 0
    ELSE IF DiffBelow(r.W, width, 10) THEN 12
    ELSE IF DiffWithin(r.W, width, 5000) THEN 6
    ELSE IF DiffWithin(r.W, width, 10000) THEN 3
    ELSE 0

\* a width factor that takes points from a row further than 10 cm from the query
WidthScoreFarPenalty(r, width) ==
    IF width = None \/ r.W = Null THEN 0
    ELSE IF DiffBelow(r.W, width, 10) THEN 9
    ELSE IF DiffWithin(r.W, width, 5000) THEN 6
    ELSE IF DiffWithin(r.W, width, 10000) THEN 3
    ELSE 0 - 3

\* rong_map: only when the query has a width; < 0.01 -> 9, <= 5 -> 6, <= 10 -> 3
WidthScore(r, width) ==
    IF width = None \/ r.W = Null THEN 0
    ELSE IF DiffBelow(r.W, width, 10) THEN 9
    ELSE IF DiffWithin(r.W, width, 5000) THEN 6
    ELSE IF DiffWithin(r.W, width, 10000) THEN 3
    ELSE 0

\* a length factor that tries the loosest tier first
LengthScoreLoosestFirst(r, length) ==
    IF length = None \/ r.L = Null THEN 0
    ELSE IF DiffWithin(r.L, length, 20000) THEN 1
    ELSE IF DiffWithin(r.L, length, 10000) THEN 2
    ELSE IF DiffBelow(r.L, length, 10) THEN 3
    ELSE 0

\* dai_map: only when the query has a length; < 0.01 -> 3, <= 10 -> 2, <= 20 -> 1
LengthScore(r, length) ==
    IF length = None \/ r.L = Null THEN 0
    ELSE IF DiffBelow(r.L, length, 10) THEN 3
    ELSE IF DiffWithin(r.L, length, 10000) THEN 2
    ELSE IF DiffWithin(r.L, length, 20000) THEN 1
    ELSE 0

score_row(r, stone_type, processing_type, height, width, length) ==
    StoneScore(r, stone_type) + ProcessingScore(r, processing_type)
        + HeightScore(r, height) + WidthScore(r, width) + LengthScore(r, length)

get_match_type(row, stone_type) ==
    LET input_stone == normalize_stone_name(stone_type)
        input_base_type == get_stone_base_type(input_stone)
    IN  IF input_stone = normalize_stone_name(row.loai_da)
        THEN <<"Exact Match">>
        ELSE IF get_stone_base_type(row.loai_da) = input_base_type
        THEN <<"Same Base Type", input_base_type>>
        ELSE <<"Different Stone Type", get_stone_base_type(row.loai_da)>>

-----------------------------------------------------------------------------
(* utils/scoring.py: calculate_priority_score *)

\* DataFrame.sort_values('priority_score', ascending=False) with the default
\* kind='quicksort': the rows come back with non-increasing scores; the order
\* among equal scores is whatever the unstable sort leaves.  The orders of the
\* positions in S, each a sequence of positions.
RECURSIVE OrdersOf(_, _)
OrdersOf(scores, S) ==
    IF S = {} THEN {<<>>}
    ELSE LET top == {i \in S : \A j \in S : scores[i] >= scores[j]}
         IN  UNION {{<<i>> \o t : t \in OrdersOf(scores, S \ {i})} : i \in top}

SortOrders(scores) == OrdersOf(scores, DOMAIN scores)

\* a score column that gives the first row of the table one more point
ScoreColumnFirstRowBonus(table, stone_type, processing_type, height, width, length) ==
    [i \in DOMAIN table |->
        score_row(table[i], stone_type, processing_type, height, width, length)
            + (IF i = 1 /\ Len(table) > 1 THEN 1 ELSE 0)]

ScoreColumn(table, stone_type, processing_type, height, width, length) ==
    [i \in DOMAIN table |->
        score_row(table[i], stone_type, processing_type, height, width, length)]

Annotated(table, scores, stone_type, i) ==
    [pos |-> i,
     row |-> table[i],
     priority_score |-> scores[i],
     product_code |-> generate_product_code(table[i], i - 1),
     stone_match_type |-> get_match_type(table[i], stone_type)]

\* The outcomes of one call: it raises while building the product codes when a
\* row has a NaN dimension (the score column is already assigned), otherwise it
\* returns the annotated rows in one of the orders the sort may produce.
calculate_priority_score(table, stone_type, processing_type, height, width, length) ==
    LET scores == ScoreColumn(table, stone_type, processing_type, height, width, length)
    IN  IF \E i \in DOMAIN table : CodeRaises(table[i])
        THEN {[status |-> "raised",
               cols |-> {"priority_score"},
               priority_score |-> scores,
               table |-> <<>>]}
        ELSE {[status |-> "ok",
               cols |-> {"priority_score", "product_code", "stone_match_type"},
               priority_score |-> scores,
               table |-> [k \in DOMAIN table |->
                            Annotated(table, scores, stone_type, p[k])]] :
                p \in SortOrders(scores)}

\* The call on pd.DataFrame(), the frame load_data and filter_data return for
\* an empty dataset: score_row swallows the missing columns and the score and
\* code columns are assigned empty; df.apply(get_match_type, axis=1) then returns
\* a copy of the frame, get_match_type having raised KeyError on its trial row,
\* and assigning that frame to the one column 'stone_match_type' raises.
calculate_priority_score_bare ==
    [status |-> "raised",
     cols |-> {"priority_score", "product_code"},
     priority_score |-> <<>>,
     table |-> <<>>]

-----------------------------------------------------------------------------
(* Sample texts *)

\* 'GRANITE WHITE'
GRANITE_WHITE == <<71, 82, 65, 78, 73, 84, 69, 32, 87, 72, 73, 84, 69>>
\* ' granite  white '
granite_white_untidy ==
    <<32, 103, 114, 97, 110, 105, 116, 101, 32, 32, 119, 104, 105, 116, 101, 32>>
\* 'Granite\xa0\tWhite\r': a no-break space and a tab inside, a carriage return after
granite_white_nbsp ==
    <<71, 114, 97, 110, 105, 116, 101, 160, 9, 87, 104, 105, 116, 101, 13>>
\* 'GRANITE RED'
GRANITE_RED == <<71, 82, 65, 78, 73, 84, 69, 32, 82, 69, 68>>
\* 'BAZAN ĐEN'
BAZAN_DEN == <<66, 65, 90, 65, 78, 32, 272, 69, 78>>
\* 'bazan đen'
bazan_den_lower == <<98, 97, 122, 97, 110, 32, 273, 101, 110>>
\* 'FLAMED'
FLAMED == <<70, 76, 65, 77, 69, 68>>
\* 'flamed '
flamed_untidy == <<102, 108, 97, 109, 101, 100, 32>>
\* 'HONED'
HONED == <<72, 79, 78, 69, 68>>
\* 'ĐỤC'
DUC == <<272, 7908, 67>>
\* 'đục'
duc_lower == <<273, 7909, 99>>

NoRet == [status |-> "none", table |-> <<>>]

Row(s, g, h, w, l, p) ==
    [loai_da |-> s, gia_cong |-> g, H |-> h, W |-> w, L |-> l, usd_m3 |-> p]

Query(s, g, h, w, l) ==
    [stone_type |-> s, processing_type |-> g, height |-> h, width |-> w, length |-> l]

-----------------------------------------------------------------------------
(* Scoring a table: the caller builds a table, then calls the scorer once *)

MaxRows == 3

\* complete rows, rows with one NaN cell each, and a row with a Vietnamese
\* name and method whose height is 8.01
Catalogue ==
    {Row(GRANITE_WHITE, FLAMED, h, 15000, 15000, 10) : h \in {8000, 9000}}
    \cup {Row(GRANITE_RED, FLAMED, 8000, 15000, 15000, 10),
          Row(GRANITE_WHITE, FLAMED, Null, 15000, 15000, 10),
          Row(GRANITE_WHITE, FLAMED, 8000, Null, 15000, 10),
          Row(GRANITE_WHITE, FLAMED, 8000, 15000, Null, 10),
          Row(GRANITE_WHITE, FLAMED, 8000, 15000, 15000, Null),
          Row(bazan_den_lower, duc_lower, 8010, 15000, 15000, 10)}

Queries ==
    {Query(GRANITE_WHITE, FLAMED, 8000, w, None) : w \in {None, 15000}}

\* utils/ui_helpers.py initialize_session_state, on the first run of a session
InitSession ==
    [query |-> [set |-> FALSE],
     filtered_data |-> <<>>,
     prediction_results |-> [status |-> "None"],
     price_model |-> [fitted |-> FALSE],
     predicted_price |-> [set |-> FALSE],
     exact_matches |-> [set |-> FALSE]]

InitIdleSession ==
    /\ stage = "input"
    /\ sess = InitSession
    /\ data = <<>>
    /\ syncs = 0
    /\ pass = [status |-> "none", at |-> "none", strategy |-> "none",
               estimate |-> [status |-> "None"]]

InitIdleStats ==
    /\ subset = <<>>
    /\ stats = [status |-> "none"]

NoNorm == [called |-> FALSE]

InitIdleNames ==
    /\ pieces = <<>>
    /\ norm = NoNorm

NoPrice == [called |-> FALSE]
NoBazan == [called |-> FALSE]
NoApp7 == [stage |-> "off"]

InitIdlePrice == price = NoPrice
InitIdleBazan == bazan = NoBazan
InitIdleApp7 == app7 = NoApp7

InitIdleExtra ==
    /\ InitIdlePrice
    /\ InitIdleBazan
    /\ InitIdleApp7

InitIdleScore ==
    /\ bare = FALSE
    /\ df = <<>>
    /\ query = Query(GRANITE_WHITE, FLAMED, 8000, None, None)
    /\ dfCols = {}
    /\ scoreCol = <<>>
    /\ ret = NoRet

Init ==
    /\ bare \in BOOLEAN
    /\ df = <<>>
    /\ query \in Queries
    /\ dfCols = {}
    /\ scoreCol = <<>>
    /\ ret = NoRet
    /\ InitIdleSession
    /\ InitIdleStats
    /\ InitIdleNames
    /\ InitIdleExtra

\* the caller's table gains a row before the call
AddRow ==
    /\ ret.status = "none"
    /\ ~bare
    /\ Len(df) < MaxRows
    /\ \E r \in Catalogue : df' = Append(df, r)
    /\ UNCHANGED <<query, dfCols, scoreCol, ret, sessionVars, statsVars, bare, nameVars, extraVars>>

\* calculate_priority_score(df, stone_type, processing_type, height, width, length)
\* df is annotated in place, the sorted table is returned
Score ==
    /\ ret.status = "none"
    /\ \E out \in (IF bare THEN {calculate_priority_score_bare}
                  ELSE calculate_priority_score(df, query.stone_type,
                           query.processing_type, query.height, query.width,
                           query.length)) :
          /\ dfCols' = out.cols
          /\ scoreCol' = out.priority_score
          /\ ret' = [status |-> out.status, table |-> out.table]
    /\ UNCHANGED <<df, query, sessionVars, statsVars, bare, nameVars, extraVars>>

Next == AddRow \/ Score

Spec == Init /\ [][Next]_vars

-----------------------------------------------------------------------------
(* Scoring one row against one query, over a grid of names and dimensions *)

RowStones ==
    {GRANITE_WHITE, granite_white_untidy, granite_white_nbsp, GRANITE_RED, BAZAN_DEN,
     bazan_den_lower, NaNText}
RowProcessings == {FLAMED, flamed_untidy, duc_lower, NaNText}
\* Heights, widths and lengths on and next to the limits of the tiers for the
\* queries below.  In doubles 8.01 - 8.0 and 16.11 - 16.1 are below 0.01,
\* 16.1 - 11.1 is above 5 and 16.1 - 6.1 above 10, 22.2 - 22.19 is below 0.01
\* and 32.2 - 22.2 above 10.
RowHeights == {Null, 8000, 8010, 8020, 9000, 9001, 10000, 10001}
RowWidths == {Null, 16100, 16110, 21100, 11100, 26100, 6100}
RowLengths == {Null, 22200, 22190, 32200, 12200, 42200}

RowGrid ==
    {Row(s, g, h, w, l, 10) :
        s \in RowStones, g \in RowProcessings, h \in RowHeights,
        w \in RowWidths, l \in RowLengths}

RowQueries ==
    {Query(n[1], n[2], 8000, w, l) :
        n \in {<<GRANITE_WHITE, FLAMED>>, <<BAZAN_DEN, DUC>>},
        w \in {None, 16100}, l \in {None, 22200}}

InitRow ==
    /\ bare = FALSE
    /\ df \in {<<r>> : r \in RowGrid}
    /\ query \in RowQueries
    /\ dfCols = {}
    /\ scoreCol = <<>>
    /\ ret = NoRet
    /\ InitIdleSession
    /\ InitIdleStats
    /\ InitIdleNames
    /\ InitIdleExtra

NextRow == Score

SpecRow == InitRow /\ [][NextRow]_vars

-----------------------------------------------------------------------------
(* Claims about the scorer *)

HasNullCell(r) == r.H = Null \/ r.W = Null \/ r.L = Null \/ r.usd_m3 = Null

Called == ret.status # "none"

Returned(i) == \E k \in DOMAIN ret.table : ret.table[k].pos = i

\* C1: for a non-empty table the call returns exactly the input rows, each once
\* and each with its priority_score, in an order of non-increasing score.
C1_ReturnsAllRowsSorted ==
    (Called /\ df # <<>>) =>
        /\ ret.status = "ok"
        /\ Len(ret.table) = Len(df)
        /\ \A i \in DOMAIN df : Returned(i)
        /\ \A k \in DOMAIN ret.table :
              /\ ret.table[k].row = df[ret.table[k].pos]
              /\ ret.table[k].priority_score = scoreCol[ret.table[k].pos]
        /\ \A k, m \in DOMAIN ret.table :
              k < m => ret.table[k].priority_score >= ret.table[m].priority_score

\* C2: rows with equal priority_score come back in their input order.
C2_TiesKeepInputOrder ==
    ret.status = "ok" =>
        \A k, m \in DOMAIN ret.table :
            (k < m /\ ret.table[k].priority_score = ret.table[m].priority_score)
                => ret.table[k].pos < ret.table[m].pos

\* C3: a table with rows that have a null height, width, length or price is
\* scored without raising, and every such row is in the returned table.
C3_NullRowsScoredWithoutRaising ==
    (Called /\ \E i \in DOMAIN df : HasNullCell(df[i])) =>
        /\ ret.status = "ok"
        /\ \A i \in DOMAIN df : HasNullCell(df[i]) => Returned(i)

\* the ceiling of the factors a query makes applicable: 65, 74, 68 or 77
Ceiling(q) ==
    65 + (IF q.width # None THEN 9 ELSE 0) + (IF q.length # None THEN 3 ELSE 0)

MatchesQuery(r, q) ==
    /\ normalize_stone_name(r.loai_da) = normalize_stone_name(q.stone_type)
    /\ normalize_stone_name(r.gia_cong) = normalize_stone_name(q.processing_type)
    /\ r.H # Null
    /\ DiffBelow(r.H, q.height, 10)

\* the row's cells are the query's values; a dimension the query leaves out is
\* empty in the row
IdenticalToQuery(r, q) ==
    /\ r.loai_da = q.stone_type
    /\ r.gia_cong = q.processing_type
    /\ r.H = q.height
    /\ r.W = (IF q.width = None THEN Null ELSE q.width)
    /\ r.L = (IF q.length = None THEN Null ELSE q.length)

\* C5: a row matching the query on stone type, processing method and height
\* scores 65 on those three factors, and an only row identical to the query is
\* returned first with that score.
C5_ExactRowScoresMaxAndComesFirst ==
    Called =>
        /\ \A i \in DOMAIN df :
              MatchesQuery(df[i], query) =>
                  scoreCol[i] - WidthScore(df[i], query.width)
                              - LengthScore(df[i], query.length) = 65
        /\ (Len(df) = 1 /\ IdenticalToQuery(df[1], query)) =>
              /\ ret.status = "ok"
              /\ ret.table[1].pos = 1
              /\ ret.table[1].priority_score
                    - WidthScore(df[1], query.width)
                    - LengthScore(df[1], query.length) = 65

\* C17: the product codes of one scoring pass are pairwise distinct, also for
\* rows with the same stone, processing method and dimensions.
C17_ProductCodesDistinct ==
    ret.status = "ok" =>
        \A k, m \in DOMAIN ret.table :
            k # m => ret.table[k].product_code # ret.table[m].product_code

\* two identical rows were given their codes
C17_Witness ==
    /\ ret.status = "ok"
    /\ Len(df) >= 2
    /\ df[1] = df[2]

\* what the height factor, respectively the stone factor, added to the score
\* of row i
HeightPart(i) ==
    scoreCol[i] - StoneScore(df[i], query.stone_type)
                - ProcessingScore(df[i], query.processing_type)
                - WidthScore(df[i], query.width) - LengthScore(df[i], query.length)

StonePart(i) ==
    scoreCol[i] - ProcessingScore(df[i], query.processing_type)
                - HeightScore(df[i], query.height)
                - WidthScore(df[i], query.width) - LengthScore(df[i], query.length)

\* C18: a row with a numeric height gets the points of exactly one height tier,
\* the first matching of: below 0.01 cm, within 1 cm, within 2 cm, within 5 cm,
\* and a low floor beyond; the height contribution is never zero.
C18_HeightTiersWithFloor ==
    \A i \in DOMAIN scoreCol :
        df[i].H # Null =>
            LET Below(t) == DiffBelow(df[i].H, query.height, t)
                Within(t) == DiffWithin(df[i].H, query.height, t)
                h == HeightPart(i)
            IN  /\ h > 0
                /\ Below(10) => h = 15
                /\ (~Below(10) /\ Within(1000)) => h = 12
                /\ (~Within(1000) /\ Within(2000)) => h = 9
                /\ ~Within(2000) => h < 9

\* C19: a row with a null height, width or length gets 0 for that factor, keeps
\* its stone, processing and other dimension points, and is in the result.
C19_NullDimensionRowKept ==
    Called =>
        \A i \in DOMAIN df :
            (df[i].H = Null \/ df[i].W = Null \/ df[i].L = Null) =>
                /\ scoreCol[i] =
                      StoneScore(df[i], query.stone_type)
                      + ProcessingScore(df[i], query.processing_type)
                      + (IF df[i].H = Null THEN 0 ELSE HeightScore(df[i], query.height))
                      + (IF df[i].W = Null THEN 0 ELSE WidthScore(df[i], query.width))
                      + (IF df[i].L = Null THEN 0 ELSE LengthScore(df[i], query.length))
                /\ ret.status = "ok"
                /\ Returned(i)

\* C20: the stone factor adds 30 when the normalised names are equal, 25 when
\* they differ but the base types are equal, 20 otherwise: one of the three,
\* never 0.
C20_StoneFactorThreeTiers ==
    \A i \in DOMAIN scoreCol :
        LET same == normalize_stone_name(df[i].loai_da)
                        = normalize_stone_name(query.stone_type)
            sameBase == get_stone_base_type(df[i].loai_da)
                        = get_stone_base_type(query.stone_type)
            points == StonePart(i)
        IN  /\ points \in {30, 25, 20}
            /\ points = 30 <=> same
            /\ points = 25 <=> (~same /\ sameBase)
            /\ points = 20 <=> (~same /\ ~sameBase)

\* a row of the query's family under another name was scored, and so was a
\* row written untidily
C20_Witness ==
    /\ scoreCol # <<>>
    /\ df[1].loai_da = granite_white_untidy
    /\ query.stone_type = GRANITE_WHITE
    /\ StonePart(1) = 30

\* C12: the scorer given an empty dataset returns an empty result and does not
\* raise.
C12_EmptyDatasetScoresEmpty ==
    (Called /\ df = <<>>) =>
        /\ ret.status = "ok"
        /\ ret.table = <<>>

\* C13: the call leaves the caller's table as it was: no column added, the
\* same rows in the same order.
C13_CallerTableUntouched ==
    [][ret.status = "none" /\ ret'.status # "none" => df' = df /\ dfCols' = dfCols]_vars

\* what the processing, the width and the length factor added to the score of
\* row i
ProcessingPart(i) ==
    scoreCol[i] - StoneScore(df[i], query.stone_type)
                - HeightScore(df[i], query.height)
                - WidthScore(df[i], query.width) - LengthScore(df[i], query.length)

WidthPart(i) ==
    scoreCol[i] - StoneScore(df[i], query.stone_type)
                - ProcessingScore(df[i], query.processing_type)
                - HeightScore(df[i], query.height) - LengthScore(df[i], query.length)

LengthPart(i) ==
    scoreCol[i] - StoneScore(df[i], query.stone_type)
                - ProcessingScore(df[i], query.processing_type)
                - HeightScore(df[i], query.height) - WidthScore(df[i], query.width)

\* C21: the processing factor adds 20 when the row's normalised method equals
\* the query's normalised method and 15 for any other method: one of the two,
\* never 0.
C21_ProcessingFactorTwoTiers ==
    \A i \in DOMAIN scoreCol :
        LET same == normalize_stone_name(df[i].gia_cong)
                        = normalize_stone_name(query.processing_type)
            points == ProcessingPart(i)
        IN  /\ points \in {20, 15}
            /\ points = 20 <=> same
            /\ points = 15 <=> ~same

\* a row whose method is the query's written untidily, and the 20 it got
C21_Witness ==
    /\ scoreCol # <<>>
    /\ df[1].gia_cong = flamed_untidy
    /\ query.processing_type = FLAMED
    /\ ProcessingPart(1) = 20

\* C22: the width factor and the length factor compare the row with the
\* query's own width and length, the first matching tier (most precise first)
\* gives the points, the width adds at most 9 and the length at most 3, and a
\* factor adds nothing when the query leaves that dimension out.
C22_WidthAndLengthTiers ==
    \A i \in DOMAIN scoreCol :
        LET w == WidthPart(i)
            l == LengthPart(i)
        IN  /\ w >= 0 /\ w <= 9
            /\ l >= 0 /\ l <= 3
            /\ query.width = None => w = 0
            /\ query.length = None => l = 0
            /\ (query.width # None /\ df[i].W # Null) =>
                  LET Below(t) == DiffBelow(df[i].W, query.width, t)
                      Within(t) == DiffWithin(df[i].W, query.width, t)
                  IN  /\ Below(10) => w = 9
                      /\ (~Below(10) /\ Within(5000)) => w = 6
                      /\ (~Within(5000) /\ Within(10000)) => w = 3
                      /\ ~Within(10000) => w = 0
            /\ (query.length # None /\ df[i].L # Null) =>
                  LET Below(t) == DiffBelow(df[i].L, query.length, t)
                      Within(t) == DiffWithin(df[i].L, query.length, t)
                  IN  /\ Below(10) => l = 3
                      /\ (~Below(10) /\ Within(10000)) => l = 2
                      /\ (~Within(10000) /\ Within(20000)) => l = 1
                      /\ ~Within(20000) => l = 0

\* a row 5 cm off the query's width and 10 cm off its length: second tiers
C22_Witness ==
    /\ scoreCol # <<>>
    /\ query.width = 16100 /\ df[1].W = 21100
    /\ query.length = 22200 /\ df[1].L = 12200
    /\ WidthPart(1) = 6
    /\ LengthPart(1) = 2

\* the score of row r for the query without its width and length
HeightOnlyScore(r, q) ==
    score_row(r, q.stone_type, q.processing_type, q.height, None, None)

\* C28: a width and/or a length in the query never lowers a row's score: the
\* score lies between the score for the same query without them and that
\* score plus 12.
C28_DimensionsNeverLowerScore ==
    \A i \in DOMAIN scoreCol :
        /\ scoreCol[i] >= HeightOnlyScore(df[i], query)
        /\ scoreCol[i] <= HeightOnlyScore(df[i], query) + 12

\* rows scored with both dimensions in the query: one that gains the whole 12
\* points, one too far off to gain any
C28_Witness ==
    /\ scoreCol # <<>>
    /\ query.width # None /\ query.length # None
    /\ df[1].W # Null /\ df[1].L # Null
    /\ \/ scoreCol[1] = HeightOnlyScore(df[1], query) + 12
       \/ /\ ~DiffWithin(df[1].W, query.width, 10000)
          /\ scoreCol[1] = HeightOnlyScore(df[1], query)

\* the tables of at most two catalogue rows
SmallTables ==
    {<<r>> : r \in Catalogue} \cup {<<r, t>> : r \in Catalogue, t \in Catalogue}

\* C24: the score of a row depends on that row's own cells and the query only:
\* the row scores the same in every table, beside whatever other rows and at
\* whatever position.
C24_ScoreIsRowLocal ==
    \A i \in DOMAIN scoreCol :
        \A t \in SmallTables : \A k \in DOMAIN t :
            t[k] = df[i] =>
                scoreCol[i] = ScoreColumn(t, query.stone_type, query.processing_type,
                                          query.height, query.width, query.length)[k]

\* a table in which the same row stands twice, beside a row that differs
C24_Witness ==
    /\ Len(scoreCol) = 3
    /\ df[1] = df[3]
    /\ df[2] # df[1]
    /\ scoreCol[2] # scoreCol[1]

-----------------------------------------------------------------------------
(* utils/ui_helpers.py: the statistical estimate *)

RECURSIVE GCD(_, _)
GCD(a, b) == IF b = 0 THEN a ELSE GCD(b, a % b)

\* an exact fraction in lowest terms
Fraction(num, den) == <<num \div GCD(num, den), den \div GCD(num, den)>>

\* the sum of finite prices
RECURSIVE SumSeq(_)
SumSeq(s) == IF s = <<>> THEN 0 ELSE Head(s) + SumSeq(Tail(s))

\* Series.mean() of a column without NaN: inf, written as the fraction 1/0,
\* when the column holds inf
Mean(prices) ==
    IF \E i \in DOMAIN prices : prices[i] = Inf THEN <<1, 0>>
    ELSE Fraction(SumSeq(prices), Len(prices))

MinOf(S) == CHOOSE x \in S : \A y \in S : x <= y
MaxOf(S) == CHOOSE x \in S : \A y \in S : x >= y

\* filtered_df['usd_m3'], the column of a raw or an annotated table
PriceColumn(table) ==
    [i \in DOMAIN table |->
        IF "row" \in DOMAIN table[i] THEN table[i].row.usd_m3 ELSE table[i].usd_m3]

IsValidPrice(p) == p # Null

\* Series.dropna()
DropNa(col) == SelectSeq(col, IsValidPrice)

NoResults == [status |-> "None"]

\* an estimator that counts a missing price as a price of zero
ZeroForNull(p) == IF p = Null THEN 0 ELSE p

PredictionResultsNullAsZero(filtered_df) ==
    LET col == PriceColumn(filtered_df)
        prices == [i \in DOMAIN col |-> ZeroForNull(col[i])]
    IN  IF Len(prices) = 0 THEN NoResults
        ELSE [status |-> "dict",
              avg_price |-> Mean(prices),
              min_price |-> MinOf(Range(prices)),
              max_price |-> MaxOf(Range(prices)),
              confidence |-> Min2(95, Len(prices) * 10)]

\* an estimator whose confidence is capped at 100
PredictionResultsCap100(filtered_df) ==
    LET valid_prices == DropNa(PriceColumn(filtered_df))
    IN  IF Len(valid_prices) = 0 THEN NoResults
        ELSE [status |-> "dict",
              avg_price |-> Mean(valid_prices),
              min_price |-> MinOf(Range(valid_prices)),
              max_price |-> MaxOf(Range(valid_prices)),
              confidence |-> Min2(100, Len(valid_prices) * 10)]

calculate_prediction_results(filtered_df) ==
    LET valid_prices == DropNa(PriceColumn(filtered_df))
    IN  IF Len(valid_prices) = 0 THEN NoResults
        ELSE [status |-> "dict",
              avg_price |-> Mean(valid_prices),
              min_price |-> MinOf(Range(valid_prices)),
              max_price |-> MaxOf(Range(valid_prices)),
              confidence |-> Min2(95, Len(valid_prices) * 10)]

\* The call on pd.DataFrame(), the frame filter_data returns for an empty
\* dataset: filtered_df['usd_m3'] raises KeyError.
calculate_prediction_results_bare == [status |-> "raised"]

-----------------------------------------------------------------------------
(* components/processing_stage.py and utils/data_loader.py: one processing pass *)

\* a filter that leaves the stone type out
MatchesFilterAnyStone(r, stone_type, processing_type, height, width, length) ==
    /\ (processing_type # NaNText => r.gia_cong = processing_type)
    /\ r.H = height
    /\ (width # None => r.W = width)
    /\ (length # None => r.L = length)

\* utils/data_loader.py filter_data: exact equality on the raw cells; a filter
\* whose value is None is left out, the height filter never is
MatchesFilter(r, stone_type, processing_type, height, width, length) ==
    /\ (stone_type # NaNText => r.loai_da = stone_type)
    /\ (processing_type # NaNText => r.gia_cong = processing_type)
    /\ r.H = height
    /\ (width # None => r.W = width)
    /\ (length # None => r.L = length)

RECURSIVE SelectRows(_, _, _, _, _, _)
SelectRows(table, stone_type, processing_type, height, width, length) ==
    IF table = <<>> THEN <<>>
    ELSE IF MatchesFilter(Head(table), stone_type, processing_type, height, width, length)
         THEN <<Head(table)>>
                  \o SelectRows(Tail(table), stone_type, processing_type, height, width, length)
         ELSE SelectRows(Tail(table), stone_type, processing_type, height, width, length)

filter_data(table, stone_type, processing_type, height, width, length) ==
    SelectRows(table, stone_type, processing_type, height, width, length)

\* dropna(subset=['priority_score', 'W', 'L', 'usd_m3'])
IsClean(a) == a.row.W # Null /\ a.row.L # Null /\ a.row.usd_m3 # Null

CleanData(filtered_df) == SelectSeq(filtered_df, IsClean)

\* create_scatter_plot fits a model when more than 3 clean rows remain
FitAttempted(filtered_df) ==
    /\ Len(filtered_df) > 1
    /\ \E i \in DOMAIN filtered_df : filtered_df[i].row.usd_m3 # Null
    /\ Len(CleanData(filtered_df)) > 3

\* LinearRegression.fit raises ValueError on an infinite target
FitRaises(clean_data) == \E i \in DOMAIN clean_data : clean_data[i].row.usd_m3 = Inf

Sample(a) == <<a.priority_score, a.row.W, a.row.L, a.row.usd_m3>>

\* the fitted model, identified by the samples it was fitted on
NoModel == [fitted |-> FALSE]

Fit(clean_data) ==
    LET samples == {Sample(clean_data[i]) : i \in DOMAIN clean_data}
    IN  [fitted |-> TRUE,
         on |-> [x \in samples |->
                    Cardinality({i \in DOMAIN clean_data : Sample(clean_data[i]) = x})]]

\* price_model.predict(X_input): the model's value at the given features
Predict(model, priority_score, W, L) ==
    [model |-> model.on, x |-> <<priority_score, W, L>>]

MaxScore(filtered_df) ==
    MaxOf({filtered_df[i].priority_score : i \in DOMAIN filtered_df})

\* Python truth value of a number
Truthy(x) == x # None /\ x # 0

NoPass == [status |-> "none", at |-> "none", strategy |-> "none", estimate |-> NoResults]

\* render_processing_stage, lines 110-134: the outcomes of filtering the table
\* and scoring what is left, for the session's query
FilterAndScore(table, q) ==
    LET filtered_df == filter_data(table, q.stone_type, q.processing_type, q.height,
                                   None, None)
    IN  IF Len(filtered_df) = 0
        THEN {[status |-> "no_rows", scored |-> <<>>]}
        ELSE {[status |-> IF out.status = "raised" THEN "raised" ELSE "scored",
               scored |-> out.table] :
                out \in calculate_priority_score(filtered_df, q.stone_type,
                            q.processing_type, q.height, q.width, q.length)}

\* create_scatter_plot: lr.fit raises, or the fitted model replaces the one in
\* the session, or the session's model is left as it is
create_scatter_plot(price_model, filtered_df) ==
    IF FitAttempted(filtered_df) /\ FitRaises(CleanData(filtered_df))
    THEN [status |-> "raised", price_model |-> price_model]
    ELSE [status |-> "ok",
          price_model |-> IF FitAttempted(filtered_df)
                          THEN Fit(CleanData(filtered_df)) ELSE price_model]

\* render_processing_stage, lines 174-209: the strategy and the estimate for
\* the model the session holds, the scored table and the query
EstimateOf(price_model, filtered_df, q) ==
    IF price_model.fitted /\ Truthy(q.width) /\ Truthy(q.length)
    THEN [strategy |-> "regression",
          estimate |-> Predict(price_model, MaxScore(filtered_df), q.width, q.length)]
    ELSE [strategy |-> "statistical",
          estimate |-> calculate_prediction_results(filtered_df)]

-----------------------------------------------------------------------------
(* The modular app: main.py, components/input_stage.py, processing_stage.py *)

MaxData == 4
MaxSyncs == 1

\* The sheet lists up to MaxData products, product k with its own width and
\* length: 5, 10 or 15 cm wide and 15, 25, ... cm long.
SlotW(k) == 5000 * (1 + ((k - 1) % 3))
SlotL(k) == 15000 + 10000 * ((k - 1) \div 3)

\* the row of product k: GRANITE at 8 cm with a price; the first two products
\* may lack the price, and the first may also have an infinite price or be of
\* another stone
SheetRows(k) ==
    {Row(GRANITE, FLAMED, 8000, SlotW(k), SlotL(k), 10)}
    \cup (IF k <= 2 THEN {Row(GRANITE, FLAMED, 8000, SlotW(k), SlotL(k), Null)} ELSE {})
    \cup (IF k = 1 THEN {Row(GRANITE, FLAMED, 8000, SlotW(k), SlotL(k), Inf),
                         Row(BAZAN_DEN, FLAMED, 8000, SlotW(k), SlotL(k), 10)}
          ELSE {})

SlotOf(r) == CHOOSE k \in 1..MaxData : SlotW(k) = r.W /\ SlotL(k) = r.L

Listed(table, k) == \E i \in DOMAIN table : SlotOf(table[i]) = k

\* the table with the row r put at its place in the sheet's order
RECURSIVE InsertRow(_, _)
InsertRow(table, r) ==
    IF table = <<>> THEN <<r>>
    ELSE IF SlotOf(r) < SlotOf(Head(table)) THEN <<r>> \o table
    ELSE <<Head(table)>> \o InsertRow(Tail(table), r)

\* 'BAZAN XÁM'
BAZAN_XAM == <<66, 65, 90, 65, 78, 32, 88, 193, 77>>
\* 'BAZAN TỔ ONG'
BAZAN_TO_ONG == <<66, 65, 90, 65, 78, 32, 84, 7892, 32, 79, 78, 71>>
\* 'GRANITE TRẮNG'
GRANITE_TRANG == <<71, 82, 65, 78, 73, 84, 69, 32, 84, 82, 7854, 78, 71>>
\* 'GRANITE HỒNG'
GRANITE_HONG == <<71, 82, 65, 78, 73, 84, 69, 32, 72, 7890, 78, 71>>
\* 'GRANITE VÀNG'
GRANITE_VANG == <<71, 82, 65, 78, 73, 84, 69, 32, 86, 192, 78, 71>>
\* 'GRANITE XÁM'
GRANITE_XAM == <<71, 82, 65, 78, 73, 84, 69, 32, 88, 193, 77>>
\* 'GRANITE ĐỎ'
GRANITE_DO == <<71, 82, 65, 78, 73, 84, 69, 32, 272, 7886>>

\* the fixed list of the stone selectbox
stone_options ==
    {BAZAN_DEN, BAZAN_XAM, BAZAN_TO_ONG, BLUESTONE, GRANITE, GRANITE_TRANG,
     GRANITE_HONG, GRANITE_VANG, GRANITE_XAM, GRANITE_DO}

\* get_unique_values(df, 'gia_cong'): the selectbox yields None on an empty list
ProcessingOptions(table) ==
    LET values == {table[i].gia_cong : i \in DOMAIN table} \ {NaNText}
    IN  IF values = {} THEN {NaNText} ELSE values

QueryHeights == {8000}
QueryWidths == {0, 5000}
QueryLengths == {15000}

InitSessionSpec ==
    /\ stage = "input"
    /\ sess = InitSession
    /\ data = <<>>
    /\ syncs = 0
    /\ pass = NoPass
    /\ InitIdleScore
    /\ InitIdleStats
    /\ InitIdleNames
    /\ InitIdleExtra

\* the data file changed and load_data() returns the new table on the next rerun
DataRowAdded ==
    /\ stage = "processing" => syncs < MaxSyncs
    /\ \E k \in 1..MaxData :
          /\ ~Listed(data, k)
          /\ \E r \in SheetRows(k) : data' = InsertRow(data, r)
    /\ syncs' = IF stage = "processing" THEN syncs + 1 ELSE syncs
    /\ UNCHANGED <<stage, sess, pass, scoreVars, statsVars, nameVars, extraVars>>

DataRowRemoved ==
    /\ stage = "processing" => syncs < MaxSyncs
    /\ \E i \in DOMAIN data :
          data' = SubSeq(data, 1, i - 1) \o SubSeq(data, i + 1, Len(data))
    /\ syncs' = IF stage = "processing" THEN syncs + 1 ELSE syncs
    /\ UNCHANGED <<stage, sess, pass, scoreVars, statsVars, nameVars, extraVars>>

\* render_input_stage: the "Start AI Analysis" button
StartAnalysis ==
    /\ stage = "input"
    /\ \E s \in stone_options, g \in ProcessingOptions(data), h \in QueryHeights,
          w \in QueryWidths, l \in QueryLengths :
          sess' = [sess EXCEPT !.query =
                      [set |-> TRUE, stone_type |-> s, processing_type |-> g,
                       height |-> h, width |-> w, length |-> l]]
    /\ stage' = "processing"
    /\ UNCHANGED <<data, syncs, pass, scoreVars, statsVars, nameVars, extraVars>>

\* A run of render_processing_stage writes st.session_state at lines 134, 46
\* and 201 or 207 and waits in between (stream_text, time.sleep, the chart):
\* Streamlit stops the run there when the user acts on the page and starts the
\* next one.  pass.status tells how far the current run has come: 'scored' and
\* 'plotted' are the two waits, 'done', 'no_rows' and 'raised' a run that ended.

\* a run that sends the session back to the input stage when no row matches
ProcessingPassLeavingOnNoRows ==
    /\ stage = "processing"
    /\ \E out \in FilterAndScore(data, sess.query) :
          /\ sess' = IF out.status = "scored"
                     THEN [sess EXCEPT !.filtered_data = out.scored] ELSE sess
          /\ pass' = [NoPass EXCEPT !.status = out.status,
                                    !.at = IF out.status = "raised" THEN "scoring" ELSE "none"]
          /\ stage' = IF out.status = "no_rows" THEN "input" ELSE stage
    /\ UNCHANGED <<data, syncs, scoreVars, statsVars, nameVars, extraVars>>

\* main() routes a rerun in stage 'processing' to render_processing_stage(df);
\* a run that was waiting is stopped.  Lines 97-134: the table is filtered and
\* scored and the scored table stored.
ProcessingPass ==
    /\ stage = "processing"
    /\ \E out \in FilterAndScore(data, sess.query) :
          /\ sess' = IF out.status = "scored"
                     THEN [sess EXCEPT !.filtered_data = out.scored] ELSE sess
          /\ pass' = [NoPass EXCEPT !.status = out.status,
                                    !.at = IF out.status = "raised" THEN "scoring" ELSE "none"]
    /\ UNCHANGED <<stage, data, syncs, scoreVars, statsVars, nameVars, extraVars>>

\* lines 137-156: the run goes on to create_scatter_plot, which stores the
\* model it fits
PassPlot ==
    /\ stage = "processing"
    /\ pass.status = "scored"
    /\ LET out == create_scatter_plot(sess.price_model, sess.filtered_data)
       IN  /\ sess' = [sess EXCEPT !.price_model = out.price_model]
           /\ pass' = IF out.status = "raised"
                      THEN [NoPass EXCEPT !.status = "raised", !.at = "fit"]
                      ELSE [pass EXCEPT !.status = "plotted"]
    /\ UNCHANGED <<stage, data, syncs, scoreVars, statsVars, nameVars, extraVars>>

\* lines 159-212: the run goes on to the estimate and stores it
PassEstimate ==
    /\ stage = "processing"
    /\ pass.status = "plotted"
    /\ LET out == EstimateOf(sess.price_model, sess.filtered_data, sess.query)
       IN  /\ sess' = [sess EXCEPT
                          !.predicted_price =
                              IF out.strategy = "regression"
                              THEN [set |-> TRUE, value |-> out.estimate] ELSE @,
                          !.prediction_results =
                              IF out.strategy = "statistical" /\ out.estimate.status = "dict"
                              THEN out.estimate ELSE @]
           /\ pass' = [status |-> "done", at |-> "none", strategy |-> out.strategy,
                       estimate |-> out.estimate]
    /\ UNCHANGED <<stage, data, syncs, scoreVars, statsVars, nameVars, extraVars>>

NextSession ==
    DataRowAdded \/ DataRowRemoved \/ StartAnalysis \/ ProcessingPass \/ PassPlot
        \/ PassEstimate

SpecSession == InitSessionSpec /\ [][NextSession]_vars

-----------------------------------------------------------------------------
(* ai-powered_stone_price_predictor/main.py: the same input and processing   *)
(* stages, and routes to components/search_stage.py and report_stage.py      *)

SearchWidths == {15000}
SearchLengths == {15000, 25000}

\* utils/ui_helpers.py reset_session_state deletes every key but 'stage'; the
\* rerun's initialize_session_state sets filtered_data and prediction_results
\* to None again
reset_session_state(s) == InitSession

\* ai-powered_stone_price_predictor/utils/data_loader.py filter_data: equality
\* on the raw cells with no test for None; a comparison with None or of a NaN
\* cell is False
predictor_filter_data(table, stone_type, processing_type, height, width, length) ==
    LET Keep(r) ==
            /\ stone_type # NaNText /\ r.loai_da = stone_type
            /\ processing_type # NaNText /\ r.gia_cong = processing_type
            /\ r.H = height
            /\ (width # None => r.W = width)
            /\ (length # None => r.L = length)
    IN  SelectSeq(table, Keep)

\* render_search_stage: the "Search Exact Match" button
SearchExactMatch ==
    /\ stage = "exact_search"
    /\ \E w \in SearchWidths, l \in SearchLengths :
          sess' = [sess EXCEPT
                      !.query.width = w,
                      !.query.length = l,
                      !.exact_matches =
                          [set |-> TRUE,
                           rows |-> predictor_filter_data(data, sess.query.stone_type,
                                        sess.query.processing_type, sess.query.height,
                                        w, l)]]
    /\ stage' = "report"
    /\ UNCHANGED <<data, syncs, pass, scoreVars, statsVars, nameVars, extraVars>>

\* render_report_stage: the "New Analysis" button
NewAnalysis ==
    /\ stage = "report"
    /\ sess' = reset_session_state(sess)
    /\ stage' = "input"
    /\ pass' = NoPass
    /\ UNCHANGED <<data, syncs, scoreVars, statsVars, nameVars, extraVars>>

NextPredictor == NextSession \/ SearchExactMatch \/ NewAnalysis

SpecPredictor == InitSessionSpec /\ [][NextPredictor]_vars

\* No component writes 'exact_search' to stage (only app7.py does, for itself),
\* so neither main.py reaches the search or the report stage and
\* reset_session_state is never called.
PredictorLateStagesUnreached == stage \in {"input", "processing"}

-----------------------------------------------------------------------------
(* Claims about the processing pass *)

\* the current or last run stored its scored table: sess.filtered_data is it
PassScored ==
    \/ pass.status \in {"scored", "plotted", "done"}
    \/ (pass.status = "raised" /\ pass.at = "fit")

\* the run has ended
PassEnded == pass.status \in {"done", "no_rows", "raised"}

\* what the same scored table and query give in a session that holds no model
FreshOutcome ==
    LET plot == create_scatter_plot(NoModel, sess.filtered_data)
    IN  IF plot.status = "raised"
        THEN [strategy |-> "none", estimate |-> NoResults]
        ELSE EstimateOf(plot.price_model, sess.filtered_data, sess.query)

\* C6: the estimate and the strategy of a pass are those its scored subset and
\* query give on their own; nothing left by an earlier pass is reused.
C6_EstimateIgnoresEarlierPasses ==
    pass.status = "done" =>
        /\ pass.strategy = FreshOutcome.strategy
        /\ pass.estimate = FreshOutcome.estimate

\* C7: when fitting the regression model fails on the scored subset, the pass
\* still completes and its estimate comes from the statistical fallback.
C7_FitFailureFallsBack ==
    (PassScored /\ PassEnded /\ FitAttempted(sess.filtered_data)
        /\ FitRaises(CleanData(sess.filtered_data)))
    => (pass.status = "done" /\ pass.strategy = "statistical")

\* C8: a pass estimates by regression exactly when at least 4 rows of its scored
\* subset have priority_score, width, length and price, and by the statistical
\* fallback otherwise.
C8_RegressionIffFourCleanRows ==
    pass.status = "done" =>
        /\ pass.strategy \in {"regression", "statistical"}
        /\ pass.strategy = "regression" <=> Len(CleanData(sess.filtered_data)) >= 4

\* the rows of the scored table the pass stored all hold the top stone, method
\* and height tiers
TopThreeTiers(scored, q) ==
    \A k \in DOMAIN scored :
        /\ StoneScore(scored[k].row, q.stone_type) = 30
        /\ ProcessingScore(scored[k].row, q.processing_type) = 20
        /\ HeightScore(scored[k].row, q.height) = 15
        /\ scored[k].priority_score >= 65

\* the rows of a scored table differ in score by width and length points only
DifferByWidthAndLengthOnly(scored, q) ==
    \A k, m \in DOMAIN scored :
        scored[k].priority_score - WidthScore(scored[k].row, q.width)
                                 - LengthScore(scored[k].row, q.length)
        = scored[m].priority_score - WidthScore(scored[m].row, q.width)
                                   - LengthScore(scored[m].row, q.length)

\* C26 as stated: every row a processing pass scored holds the top stone,
\* processing and height tiers, so its priority_score is at least 65 and the
\* rows of the pass differ by their width and length points only.
C26_FilteredRowsScoreAtLeast65 ==
    PassScored =>
        /\ TopThreeTiers(sess.filtered_data, sess.query)
        /\ DifferByWidthAndLengthOnly(sess.filtered_data, sess.query)

\* C26 amended: every row a processing pass scored holds the top stone and
\* height tiers and scores at least 60; when the query holds a processing
\* method the row holds the top processing tier too, scores at least 65, and
\* the rows of the pass differ by their width and length points only.
C26_FilteredRowsTopTiersGivenMethod ==
    PassScored =>
        /\ \A k \in DOMAIN sess.filtered_data :
              /\ StoneScore(sess.filtered_data[k].row, sess.query.stone_type) = 30
              /\ HeightScore(sess.filtered_data[k].row, sess.query.height) = 15
              /\ sess.filtered_data[k].priority_score >= 60
        /\ sess.query.processing_type # NaNText =>
              /\ TopThreeTiers(sess.filtered_data, sess.query)
              /\ DifferByWidthAndLengthOnly(sess.filtered_data, sess.query)

\* a pass scored two rows or more for a query that holds a processing method
C26_Witness ==
    /\ PassScored
    /\ sess.query.processing_type = FLAMED
    /\ Len(sess.filtered_data) >= 2
    /\ sess.filtered_data[1].priority_score # sess.filtered_data[2].priority_score

\* C30: stage is 'input' or 'processing'; it changes only from 'input' to
\* 'processing', when "Start AI Analysis" stores the query; in 'processing' no
\* step, a data sync included, changes the stage or the stored query.
C30_StageOnlyMovesToProcessing ==
    /\ stage \in {"input", "processing"}
    /\ [][/\ stage' \in {"input", "processing"}
          /\ stage' # stage =>
                (stage = "input" /\ stage' = "processing" /\ sess'.query.set)
          /\ stage = "processing" =>
                (stage' = "processing" /\ sess'.query = sess.query)]_vars

\* in 'processing', the data was synced and a pass ran on it and found no row
C30_Witness ==
    /\ stage = "processing"
    /\ syncs = 1
    /\ pass.status = "no_rows"

-----------------------------------------------------------------------------
(* The statistical estimate on its own *)

MaxSubset == 4
MaxPrices == 11

StatsPrices == {Null, 10, 12}
ConfPrices == {Null, 10}

PricedRow(p) == Row(GRANITE, FLAMED, 8000, 15000, 15000, p)

InitStats ==
    /\ subset = <<>>
    /\ stats = [status |-> "none"]
    /\ df = <<>>
    /\ query = Query(GRANITE_WHITE, FLAMED, 8000, None, None)
    /\ dfCols = {}
    /\ scoreCol = <<>>
    /\ ret = NoRet
    /\ bare \in BOOLEAN
    /\ InitIdleSession
    /\ InitIdleNames
    /\ InitIdleExtra

\* the scored subset gains a row before the estimator is called
StatsAddRow ==
    /\ stats.status = "none"
    /\ ~bare
    /\ Len(subset) < MaxSubset
    /\ \E p \in StatsPrices : subset' = Append(subset, PricedRow(p))
    /\ UNCHANGED <<stats, scoreVars, sessionVars, nameVars, extraVars>>

ConfAddRow ==
    /\ stats.status = "none"
    /\ ~bare
    /\ Len(subset) < MaxPrices
    /\ \E p \in ConfPrices : subset' = Append(subset, PricedRow(p))
    /\ UNCHANGED <<stats, scoreVars, sessionVars, nameVars, extraVars>>

\* calculate_prediction_results(filtered_df)
Estimate ==
    /\ stats.status = "none"
    /\ stats' = IF bare THEN calculate_prediction_results_bare
                 ELSE calculate_prediction_results(subset)
    /\ UNCHANGED <<subset, scoreVars, sessionVars, nameVars, extraVars>>

NextStats == StatsAddRow \/ Estimate

SpecStats == InitStats /\ [][NextStats]_vars

NextConf == ConfAddRow \/ Estimate

SpecConf == InitStats /\ [][NextConf]_vars

\* the non-null prices of the subset, by position
ValidAt == {i \in DOMAIN subset : subset[i].usd_m3 # Null}

RECURSIVE SumOver(_)
SumOver(S) ==
    IF S = {} THEN 0
    ELSE LET i == CHOOSE j \in S : TRUE IN subset[i].usd_m3 + SumOver(S \ {i})

Prices(seq) == [i \in DOMAIN seq |-> seq[i].usd_m3]

\* C9: the fallback reports the mean, minimum and maximum of exactly the
\* non-null prices and confidence min(95, 10 x their number); for the prices
\* [10, 12, null] it reports avg 11, min 10, max 12, confidence 20.
C9_StatsOverNonNullPrices ==
    /\ stats.status = "dict" =>
          /\ ValidAt # {}
          /\ stats.avg_price[1] * Cardinality(ValidAt) = SumOver(ValidAt) * stats.avg_price[2]
          /\ \E i \in ValidAt : stats.min_price = subset[i].usd_m3
          /\ \A i \in ValidAt : stats.min_price <= subset[i].usd_m3
          /\ \E i \in ValidAt : stats.max_price = subset[i].usd_m3
          /\ \A i \in ValidAt : stats.max_price >= subset[i].usd_m3
          /\ stats.confidence = Min2(95, 10 * Cardinality(ValidAt))
    /\ (stats.status # "none" /\ Prices(subset) = <<10, 12, Null>>) =>
          /\ stats.status = "dict"
          /\ stats.avg_price = <<11, 1>>
          /\ stats.min_price = 10
          /\ stats.max_price = 12
          /\ stats.confidence = 20

\* the estimator has run on the prices [10, 12, null]
C9_Witness ==
    /\ stats.status = "dict"
    /\ Prices(subset) = <<10, 12, Null>>

\* C10: the confidence never decreases as valid prices are added, lies in
\* 0..95, is 95 for 10 or more valid prices and never reaches 100.
C10_ConfidenceMonotoneCapped ==
    stats.status = "dict" =>
        /\ stats.confidence \in 0..95
        /\ stats.confidence # 100
        /\ Cardinality(ValidAt) >= 10 => stats.confidence = 95
        /\ \A k \in 0..Len(subset) :
              LET fewer == calculate_prediction_results(SubSeq(subset, 1, k))
              IN  fewer.status = "dict" => fewer.confidence <= stats.confidence

\* the estimator has run on more than 10 valid prices
C10_Witness ==
    /\ stats.status = "dict"
    /\ Cardinality(ValidAt) >= 11
    /\ stats.confidence = 95

-----------------------------------------------------------------------------
(* The name functions on their own *)

MaxPieces == 4

\* a name is put together from whitespace (a space, a tab and a no-break
\* space), the family names 'granite', 'GRANITE', 'Bazan' and 'BLUESTONE', the
\* qualifier 'đỏ', the letters 'S' and sharp s that can extend a family name,
\* and the ligature fi (U+FB01), whose upper case is 'FI'
NamePieces ==
    {<<32>>, <<9, 160>>, <<103, 114, 97, 110, 105, 116, 101>>, GRANITE, <<66, 97, 122, 97, 110>>, BLUESTONE,
     <<273, 7887>>, <<83>>, <<223>>, <<64257>>}

RECURSIVE Concat(_)
Concat(ps) == IF ps = <<>> THEN <<>> ELSE Head(ps) \o Concat(Tail(ps))

InitNames ==
    /\ InitIdleNames
    /\ InitIdleExtra
    /\ InitIdleScore
    /\ InitIdleSession
    /\ InitIdleStats

AddPiece ==
    /\ ~norm.called
    /\ Len(pieces) < MaxPieces
    /\ \E p \in NamePieces : pieces' = Append(pieces, p)
    /\ UNCHANGED <<norm, scoreVars, sessionVars, statsVars, extraVars>>

\* the name built so far; a cell can also be null
NameInputs == {Concat(pieces)} \cup (IF pieces = <<>> THEN {NaNText} ELSE {})

\* normalize_stone_name(x) and get_stone_base_type(x)
Normalize ==
    /\ ~norm.called
    /\ \E x \in NameInputs :
          norm' = [called |-> TRUE, input |-> x,
                   normalized |-> normalize_stone_name(x),
                   base |-> get_stone_base_type(x)]
    /\ UNCHANGED <<pieces, scoreVars, sessionVars, statsVars, extraVars>>

NextNames == AddPiece \/ Normalize

SpecNames == InitNames /\ [][NextNames]_vars

\* C15: normalising a normalised name changes nothing; a null name normalises
\* to the empty string; names with leading, trailing or repeated whitespace
\* included.
C15_NormalizeIdempotent ==
    norm.called =>
        /\ normalize_stone_name(norm.normalized) = norm.normalized
        /\ norm.input = NaNText => norm.normalized = <<>>

\* a name that lost at least three characters of whitespace and kept a space
C15_Witness ==
    /\ norm.called
    /\ norm.input # NaNText
    /\ Len(norm.normalized) + 3 <= Len(norm.input)
    /\ \E i \in DOMAIN norm.normalized : norm.normalized[i] = 32

KnownFamilies == {BAZAN, BLUESTONE, GRANITE}

\* C16: the base type is the known family the normalised name starts with,
\* whatever follows it, and otherwise the first whitespace-delimited token of
\* the normalised name (empty for an empty or null name).
C16_BaseTypeIsFamilyOrFirstToken ==
    norm.called =>
        LET n == norm.normalized
        IN  IF \E f \in KnownFamilies : StartsWith(n, f)
            THEN norm.base \in KnownFamilies /\ StartsWith(n, norm.base)
            ELSE \E k \in 0..Len(n) :
                    /\ norm.base = SubSeq(n, 1, k)
                    /\ \A i \in 1..k : ~IsSpace(n[i])
                    /\ k = Len(n) \/ IsSpace(n[k + 1])
                    /\ (k = 0 => n = <<>>)

\* a family name followed by a qualifier or more letters
C16_Witness ==
    /\ norm.called
    /\ norm.input # NaNText
    /\ norm.base = GRANITE
    /\ Len(norm.normalized) > Len(GRANITE)

\* C11: the estimator returns None exactly when its subset has no row with a
\* non-null price; an empty subset gives None, not an exception.
C11_NoneIffNoPrice ==
    stats.status # "none" =>
        /\ stats.status \in {"None", "dict"}
        /\ stats.status = "None" <=> ValidAt = {}
        /\ subset = <<>> => stats.status = "None"

\* C14: the fallback reads only the 10 highest-ranked rows of the subset it is
\* handed (the pass hands it the table sorted by score): its result is the
\* result for the first 10 rows, whatever rows follow them.
C14_OnlyTopTenRowsCount ==
    stats.status \in {"None", "dict"} =>
        stats = calculate_prediction_results(SubSeq(subset, 1, Min2(10, Len(subset))))

-----------------------------------------------------------------------------
(* components/processing_stage.py: apply_price_transformation *)

\* Prices in cents.  raw_price + (7 * 10) / 0.8: the constant is 87.5 dollars
apply_price_transformation(raw_price) == raw_price + (7 * 10 * 1000) \div 8

MaxRawPrice == 60

\* regression outputs from -30 to 30 dollars in steps of half a dollar
RawPrices == {50 * c : c \in (0 - MaxRawPrice)..MaxRawPrice}

InitPrice ==
    /\ price \in {[called |-> FALSE, raw |-> r] : r \in RawPrices}
    /\ InitIdleScore
    /\ InitIdleSession
    /\ InitIdleStats
    /\ InitIdleNames
    /\ InitIdleBazan
    /\ InitIdleApp7

\* render_processing_stage shows apply_price_transformation(predicted_price)
Transform ==
    /\ ~price.called
    /\ price' = [called |-> TRUE, raw |-> price.raw,
                  final |-> apply_price_transformation(price.raw)]
    /\ UNCHANGED <<scoreVars, sessionVars, statsVars, nameVars, bazan, app7>>

NextPrice == Transform

SpecPrice == InitPrice /\ [][NextPrice]_vars

\* C25: apply_price_transformation(raw_price) is (raw_price + 8) * 10 / 0.8,
\* in cents (raw + 800) * 25 / 2, for every raw regression output.
C25_TransformationIsDocumentedFormula ==
    price.called => 2 * price.final = 25 * (price.raw + 800)

-----------------------------------------------------------------------------
(* app6.py: calculate_priority_score_bazan, the joint-distance scorer *)

\* Scores of this scorer are in hundredths of a point, each standing for the
\* double the code computes: 1140 for 12 * 0.95 = 11.399999999999999.  The
\* sums a row can get, 35 points and more before the width/length factor, are
\* different doubles exactly when their hundredths differ.

\* re.sub(r'\s+', ' ', str(x).strip().upper()) of an input name
bazan_input_text(x) == CollapseSpaces(Upper(Strip(Str(x))))

bazan_normalize_stone_name(stone_name) ==
    IF stone_name = NaNText THEN <<>>
    ELSE CollapseSpaces(Upper(Strip(Str(stone_name))))

bazan_get_stone_base_type(stone_name) ==
    LET normalized == bazan_normalize_stone_name(stone_name)
        hits == {i \in DOMAIN base_types : StartsWith(normalized, base_types[i])}
    IN  IF hits # {}
        THEN base_types[CHOOSE i \in hits : \A j \in hits : i <= j]
        ELSE IF FirstToken(normalized) # <<>> THEN FirstToken(normalized)
             ELSE normalized

\* da_map of app6.py
bazan_stone_score(r, input_product) ==
    LET input_stone == bazan_input_text(input_product.loai_da)
        input_base_type == bazan_get_stone_base_type(input_stone)
    IN  IF bazan_normalize_stone_name(r.loai_da) = input_stone THEN 30
        ELSE IF bazan_get_stone_base_type(r.loai_da) = input_base_type
                /\ bazan_normalize_stone_name(r.loai_da) # input_stone THEN 25
        ELSE 20

\* gc_map of app6.py
bazan_processing_score(r, input_product) ==
    LET input_processing == bazan_input_text(input_product.gia_cong)
    IN  IF bazan_normalize_stone_name(r.gia_cong) = input_processing THEN 20 ELSE 15

\* cao_map of app6.py
bazan_height_score(r, input_product) ==
    LET H == input_product.kich_thuoc.H
    IN  IF r.H = Null THEN 0
        ELSE IF DiffBelow(r.H, H, 10) THEN 15
        ELSE IF DiffWithin(r.H, H, 1000) THEN 12
        ELSE IF DiffWithin(r.H, H, 2000) THEN 9
        ELSE 0

\* calculate_lwDistance_score(row_w, row_l, max_score=12): a step function of
\* abs(row_l - row_w), from max_score below 1 cm to max_score * 0.05 beyond 100
calculate_lwDistance_score(row_w, row_l) ==
    LET max_score == 12
    IN  IF DiffBelow(row_l, row_w, 1000) THEN max_score * 100
        ELSE IF DiffWithin(row_l, row_w, 5000) THEN max_score * 95
        ELSE IF DiffWithin(row_l, row_w, 10000) THEN max_score * 85
        ELSE IF DiffWithin(row_l, row_w, 20000) THEN max_score * 70
        ELSE IF DiffWithin(row_l, row_w, 30000) THEN max_score * 55
        ELSE IF DiffWithin(row_l, row_w, 50000) THEN max_score * 40
        ELSE IF DiffWithin(row_l, row_w, 75000) THEN max_score * 25
        ELSE IF DiffWithin(row_l, row_w, 100000) THEN max_score * 15
        ELSE max_score * 5

\* the three factors of score_row that come before the width/length factor
bazan_name_and_height_score(r, input_product) ==
    100 * (bazan_stone_score(r, input_product)
           + bazan_processing_score(r, input_product)
           + bazan_height_score(r, input_product))

\* a score_row with the width and length tiers of rong_map and dai_map, which
\* compare the row with the input product
bazan_score_row_against_input(r, input_product) ==
    bazan_name_and_height_score(r, input_product)
    + 100 * (WidthScore(r, input_product.kich_thuoc.W)
             + LengthScore(r, input_product.kich_thuoc.L))

\* score_row of app6.py: the width/length factor only for a row that has both
bazan_score_row(r, input_product) ==
    bazan_name_and_height_score(r, input_product)
    + (IF r.W # Null /\ r.L # Null THEN calculate_lwDistance_score(r.W, r.L) ELSE 0)

\* get_match_type of app6.py: the row's name is stripped and upper-cased, its
\* inner whitespace is left as it is
bazan_get_match_type(row, input_product) ==
    LET input_stone == bazan_input_text(input_product.loai_da)
        input_base_type == bazan_get_stone_base_type(input_stone)
        row_stone == Upper(Strip(Str(row.loai_da)))
    IN  IF input_stone = row_stone
        THEN <<"Exact Match">>
        ELSE IF bazan_get_stone_base_type(row.loai_da) = input_base_type
        THEN <<"Same Base Type", input_base_type>>
        ELSE <<"Different Stone Type", bazan_get_stone_base_type(row.loai_da)>>

\* the outcomes of one call: the rows with their score and label, in one of the
\* orders sort_values may produce
calculate_priority_score_bazan(table, input_product) ==
    LET scores == [i \in DOMAIN table |-> bazan_score_row(table[i], input_product)]
    IN  {[priority_score |-> scores,
          table |-> [k \in DOMAIN table |->
                        [pos |-> p[k],
                         row |-> table[p[k]],
                         priority_score |-> scores[p[k]],
                         stone_match_type |->
                             bazan_get_match_type(table[p[k]], input_product)]]] :
            p \in SortOrders(scores)}

InputProduct(s, g, h, w, l) ==
    [loai_da |-> s, gia_cong |-> g, kich_thuoc |-> [H |-> h, W |-> w, L |-> l]]

BazanStones == {GRANITE_WHITE, granite_white_untidy, GRANITE_RED, BAZAN_DEN, NaNText}
BazanProcessings == {FLAMED, HONED}
BazanHeights == {Null, 8000}
BazanWidths == {Null, 10000, 120000}
\* lengths on and just beyond every step of the width/length factor for a
\* 10 cm wide row
BazanLengths ==
    {Null, 10000, 10999, 11000, 15000, 15001, 20000, 20001, 30000, 30001,
     40000, 40001, 60000, 60001, 85000, 85001, 110000, 110001}

\* widths and lengths 1 cm and 5 cm apart in decimal: in doubles 8.2 - 7.2 is
\* below 1 and 8.3 - 3.3 above 5, 11.0 - 10.0 is 1 and 15.0 - 10.0 is 5
BazanSteps == {<<7200, 8200>>, <<3300, 8300>>}

BazanGrid ==
    {Row(s, g, h, w, l, 10) :
        s \in BazanStones, g \in BazanProcessings, h \in BazanHeights,
        w \in BazanWidths, l \in BazanLengths}
    \cup {Row(s, FLAMED, 8000, d[1], d[2], 10) : s \in BazanStones, d \in BazanSteps}

BazanInputs ==
    {InputProduct(s, FLAMED, 8000, w, l) :
        s \in {GRANITE_WHITE, BAZAN_DEN}, w \in {10000, 15000}, l \in {15000, 30000}}

InitBazan ==
    /\ bazan \in {[called |-> FALSE, df |-> <<r>>, input_product |-> q] :
                    r \in BazanGrid, q \in BazanInputs}
    /\ InitIdleScore
    /\ InitIdleSession
    /\ InitIdleStats
    /\ InitIdleNames
    /\ InitIdlePrice
    /\ InitIdleApp7

\* the search button: calculate_priority_score_bazan(df.copy(), input_product)
ScoreBazan ==
    /\ ~bazan.called
    /\ \E out \in calculate_priority_score_bazan(bazan.df, bazan.input_product) :
          bazan' = [called |-> TRUE, df |-> bazan.df,
                    input_product |-> bazan.input_product,
                    scoreCol |-> out.priority_score, matches |-> out.table]
    /\ UNCHANGED <<scoreVars, sessionVars, statsVars, nameVars, price, app7>>

NextBazan == ScoreBazan

SpecBazan == InitBazan /\ [][NextBazan]_vars

\* what the width/length factor added to the score of row i
LwPart(i) ==
    bazan.scoreCol[i] - bazan_name_and_height_score(bazan.df[i], bazan.input_product)

\* the input products that differ from q in width and length only
SameButDimensions(q) ==
    {o \in BazanInputs :
        /\ o.loai_da = q.loai_da
        /\ o.gia_cong = q.gia_cong
        /\ o.kich_thuoc.H = q.kich_thuoc.H}

\* the widths and lengths a row of the grid can have
BazanPairs ==
    {<<w, l>> : w \in BazanWidths \ {Null}, l \in BazanLengths \ {Null}}
        \cup BazanSteps

\* C23: the width/length factor of a row is the same for every input width and
\* length; it is at most 12 points, 12 when |L - W| < 1, never larger for a
\* larger |L - W|, and a small non-zero floor when |L - W| exceeds 100.
C23_JointDistanceDependsOnRowOnly ==
    bazan.called =>
        \A i \in DOMAIN bazan.scoreCol :
            LET r == bazan.df[i]
            IN  /\ LwPart(i) >= 0
                /\ LwPart(i) <= 1200
                /\ \A o \in SameButDimensions(bazan.input_product) :
                      bazan_score_row(r, o) = bazan.scoreCol[i]
                /\ (r.W # Null /\ r.L # Null) =>
                      /\ Abs(r.L - r.W) < 1000 => LwPart(i) = 1200
                      /\ Abs(r.L - r.W) > 100000 =>
                            /\ LwPart(i) > 0
                            /\ LwPart(i) <= 60
                      /\ \A d \in BazanPairs :
                            Abs(d[2] - d[1]) > Abs(r.L - r.W) =>
                                calculate_lwDistance_score(d[1], d[2]) <= LwPart(i)

\* a row more than 100 cm longer than wide was scored for an input product of
\* another width and length, and got the floor
C23_Witness ==
    /\ bazan.called
    /\ bazan.df[1].W = 10000
    /\ bazan.df[1].L = 110001
    /\ bazan.input_product.kich_thuoc.W = 15000
    /\ LwPart(1) = 60

\* the label of a scored row names the stone tier the row was given
LabelAgreesWithTier(label, points) ==
    /\ label[1] = "Exact Match" <=> points = 30
    /\ label[1] = "Same Base Type" <=> points = 25
    /\ label[1] = "Different Stone Type" <=> points = 20

\* utils/scoring.py: every returned row's label agrees with its stone tier
ScoringLabelsAgree ==
    \A k \in DOMAIN ret.table :
        LabelAgreesWithTier(ret.table[k].stone_match_type,
                            StonePart(ret.table[k].pos))

\* app6.py: every returned row's label agrees with its stone tier
BazanLabelsAgree ==
    bazan.called =>
        \A k \in DOMAIN bazan.matches :
            LET a == bazan.matches[k]
            IN  LabelAgreesWithTier(a.stone_match_type,
                    (a.priority_score
                        - 100 * bazan_processing_score(a.row, bazan.input_product)
                        - 100 * bazan_height_score(a.row, bazan.input_product)
                        - (IF a.row.W # Null /\ a.row.L # Null
                           THEN calculate_lwDistance_score(a.row.W, a.row.L) ELSE 0))
                    \div 100)

\* C27: in each scorer that labels its rows, 'Exact Match' is the label of
\* exactly the rows given the 30-point stone tier, 'Same Base Type' of those
\* given 25 and 'Different Stone Type' of those given 20.
C27_LabelAgreesWithStoneTier ==
    /\ ScoringLabelsAgree
    /\ BazanLabelsAgree

-----------------------------------------------------------------------------
(* app7.py: the single-file app and its four stages *)

Row7(s, g, h, w, l, p) ==
    [loai_da |-> s, gia_cong |-> g, H |-> h, W |-> w, L |-> l, usd_m2 |-> p]

\* p in s, for two texts
IsSubstring(p, s) ==
    \E k \in 0..(Len(s) - Len(p)) : SubSeq(s, k + 1, k + Len(p)) = p

\* score_row of app7.py: stone 40/30/10, processing 30/20/5, height 30/25/20/15/5
app7_score_row(r, stone_type, processing_type, height) ==
    LET stone == IF Upper(Str(r.loai_da)) = Upper(stone_type) THEN 40
                 ELSE IF IsSubstring(Upper(stone_type), Upper(Str(r.loai_da))) THEN 30
                 ELSE 10
        processing == IF Upper(Str(r.gia_cong)) = Upper(processing_type) THEN 30
                      ELSE IF IsSubstring(Upper(processing_type), Upper(Str(r.gia_cong)))
                      THEN 20
                      ELSE 5
        \* height_diff is 100 for a NaN height
        height_score == IF r.H = Null THEN 5
                        ELSE IF DiffBelow(r.H, height, 100) THEN 30
                        ELSE IF DiffWithin(r.H, height, 1000) THEN 25
                        ELSE IF DiffWithin(r.H, height, 2000) THEN 20
                        ELSE IF DiffWithin(r.H, height, 5000) THEN 15
                        ELSE 5
    IN  stone + processing + height_score

\* generate_product_code of app7.py, the same text as in utils/scoring.py
app7_generate_product_code(row, index) == generate_product_code(row, index)

\* calculate_priority_score of app7.py: raises while building the product
\* codes when a row has a NaN dimension, otherwise returns the rows with score
\* and code in one of the orders the sort may produce
app7_calculate_priority_score(table, stone_type, processing_type, height) ==
    LET scores == [i \in DOMAIN table |->
                      app7_score_row(table[i], stone_type, processing_type, height)]
    IN  IF \E i \in DOMAIN table : CodeRaises(table[i])
        THEN {[status |-> "raised", table |-> <<>>]}
        ELSE {[status |-> "ok",
               table |-> [k \in DOMAIN table |->
                            [row |-> table[p[k]],
                             priority_score |-> scores[p[k]],
                             product_code |->
                                 app7_generate_product_code(table[p[k]], p[k] - 1)]]] :
                p \in SortOrders(scores)}

\* the boolean mask of the processing stage: equality on the raw cells; a
\* comparison with None or of a NaN cell is False
App7Matches(r, q) ==
    /\ q.stone_type # NaNText /\ r.loai_da = q.stone_type
    /\ q.processing_type # NaNText /\ r.gia_cong = q.processing_type
    /\ r.H = q.height

app7_filter(table, q) ==
    LET Keep(r) == App7Matches(r, q)
    IN  SelectSeq(table, Keep)

App7Prices(scored) == [i \in DOMAIN scored |-> scored[i].row.usd_m2]

\* lr.fit is reached with more than one row, a price among them, and more
\* than one row left by dropna; it raises ValueError on an infinite price
App7FitRaises(scored) ==
    LET clean == DropNa(App7Prices(scored))
    IN  /\ Len(scored) > 1
        /\ Len(clean) > 1
        /\ \E i \in DOMAIN clean : clean[i] = Inf

\* the price range the processing stage stores, if a row has a price
App7PredictionResults(scored) ==
    LET valid_prices == DropNa(App7Prices(scored))
    IN  IF Len(valid_prices) = 0 THEN NoResults
        ELSE [status |-> "dict",
              avg_price |-> Mean(valid_prices),
              min_price |-> MinOf(Range(valid_prices)),
              max_price |-> MaxOf(Range(valid_prices)),
              confidence |-> Min2(95, Len(valid_prices) * 10)]

\* lines 227-263: the outcomes of filtering the table and scoring what is left
App7FilterAndScore(table, q) ==
    LET filtered_df == app7_filter(table, q)
    IN  IF Len(filtered_df) = 0
        THEN {[status |-> "no_rows", scored |-> <<>>]}
        ELSE {[status |-> IF out.status = "raised" THEN "raised_scoring" ELSE "scored",
               scored |-> out.table] :
                out \in app7_calculate_priority_score(filtered_df, q.stone_type,
                            q.processing_type, q.height)}

NoFrame == [status |-> "None"]

Frame(rows) == [status |-> "frame", rows |-> rows]

MaxReloads7 == 1

\* the rows the data file may hold: complete, without a width, with an
\* infinite price, without a price, of another stone
App7Rows ==
    {Row7(GRANITE, FLAMED, 8000, 15000, 15000, 10),
     Row7(GRANITE, FLAMED, 8000, Null, 15000, 10),
     Row7(GRANITE, FLAMED, 8000, 15000, 25000, Inf),
     Row7(GRANITE, FLAMED, 8000, 20000, 15000, Null),
     Row7(BAZAN_DEN, HONED, 8000, 15000, 15000, 12)}

App7Tables ==
    {<<>>} \cup {<<r>> : r \in App7Rows} \cup {<<r, t>> : r \in App7Rows, t \in App7Rows}

\* sorted(df[column].dropna().unique()); st.selectbox yields None on an empty list
App7Options(table, column) ==
    LET values == {table[i][column] : i \in DOMAIN table} \ {NaNText}
    IN  IF values = {} THEN {NaNText} ELSE values

App7Heights == {8000, 9000}
App7Widths == {15000}
App7Lengths == {15000, 25000}

\* lines 184-189 on the first run of a session.  Beside st.session_state the
\* record holds the page: 'shown' are the buttons of the processing stage the
\* page shows, 'pressed' the button whose press started the current run, and
\* 'last' how far the current run of the processing stage has come.
App7Fresh(table, reloads) ==
    [stage |-> "input",
     data |-> table,
     reloads |-> reloads,
     query |-> [set |-> FALSE],
     dims |-> [set |-> FALSE],
     filtered_data |-> NoFrame,
     prediction_results |-> NoResults,
     exact_matches |-> [set |-> FALSE],
     shown |-> "none",
     pressed |-> "none",
     last |-> "none"]

InitApp7 ==
    /\ app7 \in {App7Fresh(t, 0) : t \in App7Tables}
    /\ InitIdleScore
    /\ InitIdleSession
    /\ InitIdleStats
    /\ InitIdleNames
    /\ InitIdlePrice
    /\ InitIdleBazan

App7Unchanged == UNCHANGED <<scoreVars, sessionVars, statsVars, nameVars, price, bazan>>

\* the cache of load_data is cleared and the file has changed
App7CacheCleared ==
    /\ app7.reloads < MaxReloads7
    /\ \E t \in App7Tables \ {app7.data} :
          app7' = [app7 EXCEPT !.data = t, !.reloads = @ + 1]
    /\ App7Unchanged

\* input stage: "Start AI Analysis"
App7Start ==
    /\ app7.stage = "input"
    /\ \E s \in App7Options(app7.data, "loai_da"),
          g \in App7Options(app7.data, "gia_cong"), h \in App7Heights :
          app7' = [app7 EXCEPT
                      !.query = [set |-> TRUE, stone_type |-> s,
                                 processing_type |-> g, height |-> h],
                      !.stage = "processing",
                      !.shown = "none",
                      !.pressed = "none",
                      !.last = "none"]
    /\ App7Unchanged

\* A run of the processing stage writes st.session_state at lines 263 and
\* 343-348 and waits in between and after (stream_text, time.sleep, the
\* chart): Streamlit stops the run there when the user acts on the page and
\* starts the next one.  The buttons of the last run that drew any stay on the
\* page until a run ends.

\* the presses the page allows
App7Presses(a) ==
    {"none"} \cup (IF a.shown = "estimate" THEN {"find", "report"} ELSE {})
             \cup (IF a.shown = "retry" THEN {"retry"} ELSE {})

\* lines 227-263 and 373-374: a rerun in stage 'processing' filters and scores
\* the table and stores the scored one; a run that was waiting is stopped
App7Pass ==
    /\ app7.stage = "processing"
    /\ \E press \in App7Presses(app7), out \in App7FilterAndScore(app7.data, app7.query) :
          /\ ~(out.status = "no_rows" /\ press = "retry")
          /\ app7' = [app7 EXCEPT
                         !.filtered_data = IF out.status = "scored"
                                           THEN Frame(out.scored) ELSE @,
                         !.pressed = press,
                         !.shown = IF out.status = "scored" THEN @
                                   ELSE IF out.status = "no_rows" THEN "retry"
                                   ELSE "none",
                         !.last = out.status]
    /\ App7Unchanged

\* lines 266-348: the run goes on to the chart, where lr.fit may raise, and
\* stores the price range
App7Estimate ==
    /\ app7.stage = "processing"
    /\ app7.last = "scored"
    /\ app7' = IF App7FitRaises(app7.filtered_data.rows)
               THEN [app7 EXCEPT !.last = "raised_fit", !.shown = "none"]
               ELSE [app7 EXCEPT
                        !.prediction_results =
                            IF App7PredictionResults(app7.filtered_data.rows) # NoResults
                            THEN App7PredictionResults(app7.filtered_data.rows) ELSE @,
                        !.last = "estimated"]
    /\ App7Unchanged

\* a processing stage whose two buttons are reached whatever the run found
ButtonsShownAlways(a) == TRUE

\* the buttons "Yes, Find Exact Products" and "Show Final Report" are reached
\* at the end of the branch for len(filtered_df) > 0
ButtonsShown(a) == a.last = "estimated"

\* lines 352-371 with neither button pressed: the run ends and the page shows
\* the two buttons
App7AwaitChoice ==
    /\ app7.stage = "processing"
    /\ ButtonsShown(app7)
    /\ app7.pressed \notin {"find", "report"}
    /\ app7' = [app7 EXCEPT !.last = "done", !.shown = "estimate"]
    /\ App7Unchanged

\* line 363: the run that a press of "Yes, Find Exact Products" started
App7FindExact ==
    /\ app7.stage = "processing"
    /\ ButtonsShown(app7)
    /\ app7.pressed = "find"
    /\ app7' = [app7 EXCEPT !.stage = "exact_search", !.last = "done", !.shown = "none"]
    /\ App7Unchanged

\* line 368: the run that a press of "Show Final Report" started
App7ShowReport ==
    /\ app7.stage = "processing"
    /\ ButtonsShown(app7)
    /\ app7.pressed = "report"
    /\ app7' = [app7 EXCEPT !.stage = "report", !.last = "done", !.shown = "none"]
    /\ App7Unchanged

\* lines 373-377: the run that a press of "Try Different Parameters" started
\* finds no row again
App7TryDifferent ==
    /\ app7.stage = "processing"
    /\ app7.shown = "retry"
    /\ \E out \in App7FilterAndScore(app7.data, app7.query) :
          /\ out.status = "no_rows"
          /\ app7' = [app7 EXCEPT !.stage = "input", !.pressed = "retry",
                                  !.shown = "none", !.last = "no_rows"]
    /\ App7Unchanged

\* exact_search stage: "Search Exact Match"
App7SearchExact ==
    /\ app7.stage = "exact_search"
    /\ \E w \in App7Widths, l \in App7Lengths :
          LET Keep(r) == App7Matches(r, app7.query) /\ r.W = w /\ r.L = l
          IN  app7' = [app7 EXCEPT
                          !.dims = [set |-> TRUE, width |-> w, length |-> l],
                          !.exact_matches =
                              [set |-> TRUE, rows |-> SelectSeq(app7.data, Keep)],
                          !.stage = "report"]
    /\ App7Unchanged

\* report stage: "New Analysis" deletes every key but 'stage', sets stage to
\* 'input', and the rerun sets filtered_data and prediction_results to None
App7NewAnalysis ==
    /\ app7.stage = "report"
    /\ app7' = App7Fresh(app7.data, app7.reloads)
    /\ App7Unchanged

NextApp7 ==
    \/ App7CacheCleared
    \/ App7Start
    \/ App7Pass
    \/ App7Estimate
    \/ App7AwaitChoice
    \/ App7FindExact
    \/ App7ShowReport
    \/ App7TryDifferent
    \/ App7SearchExact
    \/ App7NewAnalysis

SpecApp7 == InitApp7 /\ [][NextApp7]_vars

\* the keys stone_type, processing_type and height hold values
App7QuerySet(a) ==
    /\ a.query.set
    /\ a.query.stone_type # NaNText
    /\ a.query.processing_type # NaNText

\* filtered_data holds a non-empty table whose rows carry score and code
App7HoldsScoredTable(a) ==
    /\ a.filtered_data.status = "frame"
    /\ Len(a.filtered_data.rows) > 0
    /\ \A k \in DOMAIN a.filtered_data.rows :
          a.filtered_data.rows[k].priority_score
              = app7_score_row(a.filtered_data.rows[k].row, a.query.stone_type,
                               a.query.processing_type, a.query.height)

\* C29: in stage 'exact_search' or 'report' the query keys are set and
\* filtered_data holds a non-empty scored table; those stages are entered from
\* 'processing' only by a run that found a matching row, stored its scored
\* table and reached the two buttons; the keys are removed only together with
\* setting stage back to 'input'.
C29_LateStagesHoldQueryAndTable ==
    /\ app7.stage \in {"exact_search", "report"} =>
          (App7QuerySet(app7) /\ App7HoldsScoredTable(app7))
    /\ [][/\ app7'.stage \in {"exact_search", "report"} =>
                (App7QuerySet(app7') /\ App7HoldsScoredTable(app7'))
          /\ (app7.stage = "processing" /\ app7'.stage \in {"exact_search", "report"}) =>
                (app7.last = "estimated" /\ App7HoldsScoredTable(app7)
                    /\ app7'.filtered_data = app7.filtered_data)
          /\ (app7.stage \notin {"exact_search", "report"}
                /\ app7'.stage \in {"exact_search", "report"}) =>
                app7.stage = "processing"
          /\ (app7.query.set /\ ~app7'.query.set) =>
                (app7.stage = "report" /\ app7'.stage = "input")]_vars

\* the report is shown after an exact search, in a session whose data file
\* was replaced by an empty one after the processing pass
C29_Witness ==
    /\ app7.stage = "report"
    /\ app7.exact_matches.set
    /\ app7.reloads = 1
    /\ app7.data = <<>>

====
